---- MODULE Spec2Model ----
(***************************************************************************)
(* Live Challenge Arena: the shared session document, the challenge        *)
(* service that mutates it (services/challenge.ts, Firestore and           *)
(* localStorage back ends) and the host flow of pages/ChallengeArena.tsx.  *)
(*                                                                         *)
(* Optional fields of ChallengeSession that are absent are written as the  *)
(* value the client substitutes for them: taskDescription "" and           *)
(* checkpoints <<>> (ChallengeArena.tsx:66-67), startTime 0.               *)
(***************************************************************************)
EXTENDS Integers, Sequences, FiniteSets, TLC

\* ---------------------------------------------------------------- bounds
NumUsers == 3
NumCodes == 1
NumProcs == 2
MaxCalls == 4
MaxAttempts == 2
MaxClock == 2

Users == 1..NumUsers
Codes == 1..NumCodes
Procs == 1..NumProcs

\* ------------------------------------------------------- program values
Domains == {"Algorithms"}
SessionStatuses == {"waiting", "active", "finished"}
Impls == {"firebase", "mock"}

\* The (progress, status) pairs a client sends with updateProgress.
ProgressArgs == {<<50, "coding">>, <<100, "finished">>}

\* The scenario a host publishes: a task and a list of checkpoint ids.
Scenarios == {[taskDescription |-> "task", checkpoints |-> <<1, 2>>]}

\* User.avatar may be empty: the service then substitutes a letter.
UserAvatar(u) == IF u % 2 = 1 THEN "" ELSE "AV"

VARIABLES
    impl,       \* which implementation getImpl() selects (db set or not)
    store,      \* code -> session document (Firestore / localStorage)
    slot,       \* running transactions
    last,       \* the call that returned most recently, with its result
    clock,      \* Date.now()
    calls,      \* number of service calls issued
    hMembers,   \* history: code -> users whose join/create committed and who have not left
    hProgress,  \* history: code -> user -> last committed <<progress, status>>
    arena,      \* React state of the host's ChallengeArena component
    handler,    \* running handleCreatePrivateSession invocations
    exam,       \* React state of the ExamRoom component and its pending work
    trial,      \* React state of the TrialRoom component and its pending work
    interview,  \* React state of the InterviewRoom component and its pending work
    race,       \* React state of the ChallengeArena component in a public race
    retry       \* one withRetry call of services/gemini.ts

vars == <<impl, store, slot, last, clock, calls, hMembers, hProgress, arena, handler, exam, trial, interview, race, retry>>

\* The state of the arena client, left alone by the service-level actions.
hostVars == <<arena, handler>>

\* The state of the assessment rooms and of the AI wrapper, left alone by
\* the challenge arena.
roomVars == <<exam, trial, interview, race, retry>>

\* What each room leaves alone: the other rooms.
notExam == <<trial, interview, race, retry>>
notTrial == <<exam, interview, race, retry>>
notInterview == <<exam, trial, race, retry>>
notRace == <<exam, trial, interview, retry>>
notRetry == <<exam, trial, interview, race>>

\* The state of the service-level call slots, left alone by the arena client.
callVars == <<slot, last, calls, hMembers, hProgress>>

\* ------------------------------------------------------------ documents
NoDoc ==
    [exists |-> FALSE, id |-> 0, hostId |-> 0, domain |-> "", status |-> "waiting",
     participants |-> <<>>, taskDescription |-> "", checkpoints |-> <<>>, startTime |-> 0]

ParticipantIds(ps) == {ps[i].id : i \in 1..Len(ps)}

CountId(ps, u) == Cardinality({i \in 1..Len(ps) : ps[i].id = u})

IsAlreadyInNever(ps, u) == FALSE

IsAlreadyIn(ps, u) == \E i \in 1..Len(ps) : ps[i].id = u

NewParticipant(u, dflt) ==
    [id |-> u, name |-> u, avatar |-> IF UserAvatar(u) = "" THEN dflt ELSE UserAvatar(u),
     progress |-> 0, score |-> 0, status |-> "coding", isBot |-> FALSE]

SessionDataNoHost(code, host, domain) ==
    [exists |-> TRUE, id |-> code, hostId |-> host, domain |-> domain, status |-> "waiting",
     participants |-> <<>>,
     taskDescription |-> "", checkpoints |-> <<>>, startTime |-> 0]

\* createSession's document.
SessionData(code, host, domain) ==
    [exists |-> TRUE, id |-> code, hostId |-> host, domain |-> domain, status |-> "waiting",
     participants |-> <<NewParticipant(host, "H")>>,
     taskDescription |-> "", checkpoints |-> <<>>, startTime |-> 0]

FilterOut(ps, u) == SelectSeq(ps, LAMBDA p : p.id # u)

MapProgressAll(ps, u, progress, status) ==
    [i \in 1..Len(ps) |-> [ps[i] EXCEPT !.progress = progress, !.status = status]]

MapProgressUpsert(ps, u, progress, status) ==
    IF IsAlreadyIn(ps, u)
    THEN [i \in 1..Len(ps) |->
            IF ps[i].id = u THEN [ps[i] EXCEPT !.progress = progress, !.status = status]
                            ELSE ps[i]]
    ELSE Append(ps, [NewParticipant(u, "U") EXCEPT !.progress = progress, !.status = status])

MapProgress(ps, u, progress, status) ==
    [i \in 1..Len(ps) |->
        IF ps[i].id = u THEN [ps[i] EXCEPT !.progress = progress, !.status = status]
                        ELSE ps[i]]

\* subscribeToSession's callback argument for the current document.
Null == [exists |-> FALSE]
SubscribeToSession(c) == IF store[c].exists THEN store[c] ELSE Null

\* ------------------------------------------------------------ call slots
\* The arguments of a call and what it has found out so far.
Call(op, code, user, progress, pstatus) ==
    [op |-> op, code |-> code, user |-> user, progress |-> progress, pstatus |-> pstatus,
     attempts |-> 1, isAlreadyIn |-> FALSE, success |-> FALSE, message |-> "",
     threw |-> FALSE]

NoCall == Call("none", 0, 0, 0, "coding")

\* No transaction runs in the slot.
IdleSlot == [phase |-> "idle", call |-> NoCall, snap |-> NoDoc, stale |-> FALSE]

\* Transaction k has been handed the snapshot of its document.
Reading(k) == [phase |-> "read", call |-> k, snap |-> store[k.code], stale |-> FALSE]

RejectsUncaught(failed) == failed

\* Whether the promise of a method rejects when its store operation failed:
\* every method body of firebaseImplementation sits in try ... catch.
Rejects(failed) == FALSE

\* Call k as it returns to its caller. For the void operations success records
\* whether the store operation went through; the caller sees nothing.
Done(k, success, message) ==
    [k EXCEPT !.success = success, !.message = message, !.threw = Rejects(~success)]

\* The slot a new call takes: the first one not occupied by a running transaction.
FreeProc(p) ==
    /\ slot[p].phase = "idle"
    /\ \A q \in Procs : q < p => slot[q].phase = "read"

\* A committed write to a document makes every open snapshot of it stale.
MarkStale(s, c) ==
    IF s.phase = "read" /\ s.call.code = c THEN [s EXCEPT !.stale = TRUE] ELSE s

\* Slots after the transaction in slot p ends (p = 0: the call used no slot);
\* wrote says whether document c changed.
Complete(p, c, wrote) ==
    [q \in Procs |-> IF q = p THEN IdleSlot
                     ELSE IF wrote THEN MarkStale(slot[q], c) ELSE slot[q]]

TxnConflictNever(s) == FALSE

\* runTransaction: the commit is refused when the document read has changed since.
TxnConflict(s) == s.stale

\* What joinSession reports when the store itself fails.
ConnectionFailed(op) == IF op = "joinSession" THEN "Connection failed" ELSE ""

\* runTransaction re-runs the update function on a fresh snapshot, up to
\* MaxAttempts times in all, and then rejects with a store error.
Retry(p) ==
    LET k == slot[p].call IN
    /\ IF k.attempts < MaxAttempts
       THEN /\ slot' = [slot EXCEPT ![p] = Reading([k EXCEPT !.attempts = @ + 1])]
            /\ UNCHANGED last
       ELSE /\ slot' = [slot EXCEPT ![p] = IdleSlot]
            /\ last' = Done(k, FALSE, ConnectionFailed(k.op))
    /\ UNCHANGED <<store, hMembers, hProgress>>

\* A call is issued; the model follows MaxCalls of them.
BeginCall ==
    /\ calls < MaxCalls
    /\ calls' = calls + 1

\* runTransaction(db, ...) starts: transaction.get either yields a snapshot or throws.
BeginTxn(p, k, ok) ==
    /\ BeginCall
    /\ FreeProc(p)
    /\ IF ok
       THEN /\ slot' = [slot EXCEPT ![p] = Reading(k)]
            /\ UNCHANGED last
       ELSE /\ last' = Done(k, FALSE, ConnectionFailed(k.op))
            /\ UNCHANGED slot
    /\ UNCHANGED <<impl, store, clock, hMembers, hProgress, hostVars, roomVars>>

FreshProgress == [u \in Users |-> <<0, "coding">>]

JoinRejectedMember(status, isIn) == status # "waiting" \/ isIn

JoinRejectedStrict(status, isIn) == status # "waiting"

JoinRejectedNever(status, isIn) == FALSE

\* joinSession refuses a session that has started, except to its members.
JoinRejected(status, isIn) == status # "waiting" /\ ~isIn

LeaveWriteDeleting(doc, data, userId) ==
    IF FilterOut(data.participants, userId) = <<>> THEN NoDoc
    ELSE [doc EXCEPT !.participants = FilterOut(data.participants, userId)]

\* leaveSession's write to document doc, computed from the data it read:
\* the participants field without the leaver.
LeaveWrite(doc, data, userId) ==
    [doc EXCEPT !.participants = FilterOut(data.participants, userId)]

ScenarioWriteSet(doc, sc) ==
    [NoDoc EXCEPT !.exists = TRUE,
                  !.taskDescription = sc.taskDescription, !.checkpoints = sc.checkpoints]

\* setSessionScenario's write: the two scenario fields.
ScenarioWrite(doc, sc) ==
    [doc EXCEPT !.taskDescription = sc.taskDescription, !.checkpoints = sc.checkpoints]

StartWriteSet(doc, now) ==
    [NoDoc EXCEPT !.exists = TRUE, !.status = "active", !.startTime = now]

\* startSession's write: status and startTime, whatever the status was.
StartWrite(doc, now) == [doc EXCEPT !.status = "active", !.startTime = now]

\* ------------------------------------------------ firebaseImplementation
FbCreateSession(host, domain, code, ok) ==
    LET k == Call("createSession", code, host, 0, "coding") IN
    /\ impl = "firebase"
    /\ BeginCall
    /\ IF ok
       THEN /\ store' = [store EXCEPT ![code] = SessionData(code, host, domain)]
            /\ slot' = Complete(0, code, TRUE)
            /\ last' = Done(k, TRUE, "")
            /\ hMembers' = [hMembers EXCEPT ![code] = {host}]
            /\ hProgress' = [hProgress EXCEPT ![code] = FreshProgress]
       ELSE /\ last' = Done(k, FALSE, "OFFLINE")
            /\ UNCHANGED <<store, slot, hMembers, hProgress>>
    /\ UNCHANGED <<impl, clock, hostVars, roomVars>>

FbJoinRead(p, code, user, ok) ==
    /\ impl = "firebase"
    /\ BeginTxn(p, Call("joinSession", code, user, 0, "coding"), ok)

FbJoinCommit(p) ==
    LET s == slot[p]
        data == s.snap
        user == s.call.user
        code == s.call.code
        isAlreadyIn == IsAlreadyIn(data.participants, user)
        k == [s.call EXCEPT !.isAlreadyIn = isAlreadyIn]
        newParticipants == Append(data.participants, NewParticipant(user, "P"))
    IN
    /\ s.phase = "read" /\ s.call.op = "joinSession"
    /\ IF ~data.exists
       THEN /\ slot' = Complete(p, code, FALSE)
            /\ last' = Done(k, FALSE, "Session not found")
            /\ UNCHANGED <<store, hMembers, hProgress>>
       ELSE IF JoinRejected(data.status, isAlreadyIn)
       THEN /\ slot' = Complete(p, code, FALSE)
            /\ last' = Done(k, FALSE, "Session is already active or finished")
            /\ UNCHANGED <<store, hMembers, hProgress>>
       ELSE IF TxnConflict(s)
       THEN Retry(p)
       ELSE IF ~isAlreadyIn
       THEN /\ store' = [store EXCEPT ![code].participants = newParticipants]
            /\ slot' = Complete(p, code, TRUE)
            /\ last' = Done(k, TRUE, "")
            /\ hMembers' = [hMembers EXCEPT ![code] = @ \cup {user}]
            /\ hProgress' = [hProgress EXCEPT ![code][user] = <<0, "coding">>]
       ELSE /\ slot' = Complete(p, code, FALSE)
            /\ last' = Done(k, TRUE, "")
            /\ UNCHANGED <<store, hMembers, hProgress>>
    /\ UNCHANGED <<impl, clock, calls, hostVars, roomVars>>

FbLeaveRead(p, code, user, ok) ==
    /\ impl = "firebase"
    /\ BeginTxn(p, Call("leaveSession", code, user, 0, "coding"), ok)

\* For a leaveSession the call's isAlreadyIn records whether the filter
\* found the leaver in the participants it read.
FbLeaveCommit(p) ==
    LET s == slot[p]
        data == s.snap
        user == s.call.user
        code == s.call.code
        k == [s.call EXCEPT !.isAlreadyIn = IsAlreadyIn(data.participants, user)]
    IN
    /\ s.phase = "read" /\ s.call.op = "leaveSession"
    /\ IF TxnConflict(s)
       THEN Retry(p)
       ELSE IF ~data.exists
       THEN /\ slot' = Complete(p, code, FALSE)
            /\ last' = Done(s.call, TRUE, "")
            /\ UNCHANGED <<store, hMembers, hProgress>>
       ELSE /\ store' = [store EXCEPT ![code] = LeaveWrite(@, data, user)]
            /\ slot' = Complete(p, code, TRUE)
            /\ last' = Done(k, TRUE, "")
            /\ hMembers' = [hMembers EXCEPT ![code] = @ \ {user}]
            /\ hProgress' = [hProgress EXCEPT ![code][user] = <<0, "coding">>]
    /\ UNCHANGED <<impl, clock, calls, hostVars, roomVars>>

FbSetSessionScenario(code, sc, ok) ==
    LET k == Call("setSessionScenario", code, 0, 0, "coding") IN
    /\ impl = "firebase"
    /\ BeginCall
    /\ IF ok /\ store[code].exists
       THEN /\ store' = [store EXCEPT ![code] = ScenarioWrite(@, sc)]
            /\ slot' = Complete(0, code, TRUE)
            /\ last' = Done(k, TRUE, "")
       ELSE /\ last' = Done(k, FALSE, "")
            /\ UNCHANGED <<store, slot>>
    /\ UNCHANGED <<impl, clock, hMembers, hProgress, hostVars, roomVars>>

FbStartSession(code, ok) ==
    LET k == Call("startSession", code, 0, 0, "coding") IN
    /\ impl = "firebase"
    /\ BeginCall
    /\ clock <= MaxClock
    /\ clock' = clock + 1
    /\ IF ok /\ store[code].exists
       THEN /\ store' = [store EXCEPT ![code] = StartWrite(@, clock)]
            /\ slot' = Complete(0, code, TRUE)
            /\ last' = Done(k, TRUE, "")
       ELSE /\ last' = Done(k, FALSE, "")
            /\ UNCHANGED <<store, slot>>
    /\ UNCHANGED <<impl, hMembers, hProgress, hostVars, roomVars>>

FbUpdateProgressRead(p, code, user, arg, ok) ==
    /\ impl = "firebase"
    /\ BeginTxn(p, Call("updateProgress", code, user, arg[1], arg[2]), ok)

FbUpdateProgressCommit(p) ==
    LET s == slot[p]
        data == s.snap
        k == s.call
        updatedParticipants == MapProgress(data.participants, k.user, k.progress, k.pstatus)
    IN
    /\ s.phase = "read" /\ k.op = "updateProgress"
    /\ IF TxnConflict(s)
       THEN Retry(p)
       ELSE IF ~data.exists
       THEN /\ slot' = Complete(p, k.code, FALSE)
            /\ last' = Done(k, TRUE, "")
            /\ UNCHANGED <<store, hMembers, hProgress>>
       ELSE /\ store' = [store EXCEPT ![k.code].participants = updatedParticipants]
            /\ slot' = Complete(p, k.code, TRUE)
            /\ last' = Done(k, TRUE, "")
            /\ hProgress' = [hProgress EXCEPT ![k.code][k.user] =
                               IF k.user \in ParticipantIds(data.participants)
                               THEN <<k.progress, k.pstatus>> ELSE @]
            /\ UNCHANGED hMembers
    /\ UNCHANGED <<impl, clock, calls, hostVars, roomVars>>

\* ---------------------------------------------------- mockImplementation
\* Each call reads and saves localStorage without awaiting in between, so it
\* is one step of the event loop.
MockCreateSession(host, domain, code) ==
    LET k == Call("createSession", code, host, 0, "coding") IN
    /\ impl = "mock"
    /\ BeginCall
    /\ store' = [store EXCEPT ![code] = SessionData(code, host, domain)]
    /\ last' = Done(k, TRUE, "")
    /\ hMembers' = [hMembers EXCEPT ![code] = {host}]
    /\ hProgress' = [hProgress EXCEPT ![code] = FreshProgress]
    /\ UNCHANGED <<impl, slot, clock, hostVars, roomVars>>

MockJoinSession(code, user) ==
    LET session == store[code]
        found == IsAlreadyIn(session.participants, user)
        k == [Call("joinSession", code, user, 0, "coding") EXCEPT !.isAlreadyIn = found]
    IN
    /\ impl = "mock"
    /\ BeginCall
    /\ IF ~session.exists
       THEN /\ last' = Done(k, FALSE, "Session not found (Mock)")
            /\ UNCHANGED <<store, hMembers, hProgress>>
       ELSE IF JoinRejected(session.status, found)
       THEN /\ last' = Done(k, FALSE, "Session locked")
            /\ UNCHANGED <<store, hMembers, hProgress>>
       ELSE IF ~found
       THEN /\ store' = [store EXCEPT ![code].participants =
                            Append(session.participants, NewParticipant(user, "P"))]
            /\ last' = Done(k, TRUE, "")
            /\ hMembers' = [hMembers EXCEPT ![code] = @ \cup {user}]
            /\ hProgress' = [hProgress EXCEPT ![code][user] = <<0, "coding">>]
       ELSE /\ last' = Done(k, TRUE, "")
            /\ UNCHANGED <<store, hMembers, hProgress>>
    /\ UNCHANGED <<impl, slot, clock, hostVars, roomVars>>

MockLeaveSession(code, user) ==
    LET k == [Call("leaveSession", code, user, 0, "coding")
                 EXCEPT !.isAlreadyIn = IsAlreadyIn(store[code].participants, user)]
    IN
    /\ impl = "mock"
    /\ BeginCall
    /\ IF store[code].exists
       THEN /\ store' = [store EXCEPT ![code] = LeaveWrite(@, @, user)]
            /\ hMembers' = [hMembers EXCEPT ![code] = @ \ {user}]
            /\ hProgress' = [hProgress EXCEPT ![code][user] = <<0, "coding">>]
       ELSE UNCHANGED <<store, hMembers, hProgress>>
    /\ last' = Done(k, TRUE, "")
    /\ UNCHANGED <<impl, slot, clock, hostVars, roomVars>>

MockSetSessionScenario(code, sc) ==
    LET k == Call("setSessionScenario", code, 0, 0, "coding") IN
    /\ impl = "mock"
    /\ BeginCall
    /\ IF store[code].exists
       THEN store' = [store EXCEPT ![code] = ScenarioWrite(@, sc)]
       ELSE UNCHANGED store
    /\ last' = Done(k, store[code].exists, "")
    /\ UNCHANGED <<impl, slot, clock, hMembers, hProgress, hostVars, roomVars>>

MockStartSession(code) ==
    LET k == Call("startSession", code, 0, 0, "coding") IN
    /\ impl = "mock"
    /\ BeginCall
    /\ clock <= MaxClock
    /\ clock' = clock + 1
    /\ IF store[code].exists
       THEN store' = [store EXCEPT ![code] = StartWrite(@, clock)]
       ELSE UNCHANGED store
    /\ last' = Done(k, store[code].exists, "")
    /\ UNCHANGED <<impl, slot, hMembers, hProgress, hostVars, roomVars>>

MockUpdateProgress(code, user, arg) ==
    LET k == Call("updateProgress", code, user, arg[1], arg[2]) IN
    /\ impl = "mock"
    /\ BeginCall
    /\ IF store[code].exists
       THEN /\ store' = [store EXCEPT ![code].participants = MapProgress(@, user, arg[1], arg[2])]
            /\ hProgress' = [hProgress EXCEPT ![code][user] =
                               IF user \in ParticipantIds(store[code].participants)
                               THEN <<arg[1], arg[2]>> ELSE @]
       ELSE UNCHANGED <<store, hProgress>>
    /\ last' = Done(k, TRUE, "")
    /\ UNCHANGED <<impl, slot, clock, hMembers, hostVars, roomVars>>

\* ------------------------------------------------- ChallengeArena (host)
\* Handler invocations the model follows.
MaxCreates == 1
Handlers == 1..MaxCreates

\* The signed-in user of the arena client.
HostUser == 1

\* withRetry's default number of retries.
Retries == 3

\* parseResponse yields {} for text that is not JSON: both fields undefined.
UndefinedScenario == [taskDescription |-> "", checkpoints |-> <<>>]

\* The scenario of the catch branch: a fixed task and three checkpoints.
FallbackScenario == [taskDescription |-> "fallback", checkpoints |-> <<1, 2, 3>>]

AiOutcomes == {"scenario", "unparsable", "error"}

\* What handleValidateCheckpoint reads from the render it was created in.
NoClosure == [completed |-> {}, total |-> 0, isPrivate |-> FALSE, sessionCode |-> 0]

\* heard and errored are history: what the session subscription delivered
\* last ("none" for a new subscription), and whether its listener failed.
\* completed: the ids of the checkpoints whose completed flag is set;
\* validating: the checkpoint a handleValidateCheckpoint awaits (0: none) and
\* seen: the state in that invocation's closure;
\* pending: the updateProgress calls issued and not yet settled.
LobbyArena ==
    [mode |-> "lobby", sessionCode |-> 0, isHost |-> FALSE, isPrivate |-> FALSE,
     isGeneratingTask |-> FALSE, generatedTaskReady |-> FALSE,
     task |-> "", checkpoints |-> <<>>, participants |-> <<>>,
     heard |-> "none", errored |-> FALSE,
     completed |-> {}, validating |-> 0, seen |-> NoClosure, pending |-> {}]

\* offline: createSession returned the sentinel "OFFLINE" instead of a code.
IdleHandler ==
    [pc |-> "idle", code |-> 0, offline |-> FALSE, retries |-> 0,
     scenario |-> UndefinedScenario,
     threw |-> FALSE, sent |-> UndefinedScenario, stored |-> FALSE]

\* The store can fail only when it is Firestore.
StoreOk(ok) == impl = "mock" \/ ok

LeftLobbyKeepsCode(a) ==
    [a EXCEPT !.isHost = FALSE, !.isPrivate = FALSE, !.participants = <<>>,
              !.mode = "lobby", !.generatedTaskReady = FALSE, !.isGeneratingTask = FALSE]

\* handleLeaveLobby's reset of the React state (task and checkpoints stay).
LeftLobby(a) ==
    [a EXCEPT !.sessionCode = 0, !.isHost = FALSE, !.isPrivate = FALSE,
              !.participants = <<>>,
              !.mode = "lobby", !.generatedTaskReady = FALSE, !.isGeneratingTask = FALSE]

\* leaveSession as issued by the arena client, committed at once.
ArenaLeaveSession(code, ok) ==
    IF code # 0 /\ StoreOk(ok) /\ store[code].exists
    THEN [store EXCEPT ![code] = LeaveWrite(@, @, HostUser)]
    ELSE store

\* The condition of the progress sync effect.
SyncGuard(a) == a.isPrivate /\ a.sessionCode # 0 /\ a.mode = "race"

\* The progress sync effect, run after a render that follows setParticipants:
\* it calls updateProgress with the client's own entry of participants.
ProgressSync(a) ==
    IF SyncGuard(a) /\ IsAlreadyIn(a.participants, HostUser)
    THEN LET myData == a.participants[CHOOSE i \in 1..Len(a.participants) :
                                         a.participants[i].id = HostUser]
         IN  [a EXCEPT !.pending = @ \cup {[code |-> a.sessionCode,
                                            progress |-> myData.progress,
                                            status |-> myData.status]}]
    ELSE a

\* The cleanup of the effect keyed on [sessionCode, mode, user.id], run when
\* the render of state a is replaced by one with another code or mode.
CleanupLeave(a, ok) ==
    IF a.mode \in {"waiting", "race"} THEN ArenaLeaveSession(a.sessionCode, ok) ELSE store

\* The click on "create": createSession writes the document and returns the
\* code, or returns "OFFLINE" and the handler stops at its alert.
HandleCreatePrivateSession(h, code, ok) ==
    /\ arena.mode = "lobby"
    /\ handler[h].pc = "idle"
    /\ \A g \in Handlers : g < h => handler[g].pc # "idle"
    /\ IF StoreOk(ok)
       THEN /\ store' = [store EXCEPT ![code] = SessionData(code, HostUser, "Algorithms")]
            /\ handler' = [handler EXCEPT ![h].pc = "created", ![h].code = code]
       ELSE /\ handler' = [handler EXCEPT ![h].pc = "done", ![h].offline = TRUE]
            /\ UNCHANGED store
    /\ UNCHANGED <<impl, clock, arena, callVars, roomVars>>

\* The handler resumes after createSession: it enters the waiting room.
EnterWaitingRoom(h) ==
    /\ handler[h].pc = "created"
    /\ arena' = [arena EXCEPT !.sessionCode = handler[h].code, !.isHost = TRUE,
                              !.isPrivate = TRUE, !.mode = "waiting",
                              !.isGeneratingTask = TRUE, !.generatedTaskReady = FALSE,
                              !.heard = "none", !.errored = FALSE]
    /\ handler' = [handler EXCEPT ![h].pc = "generating", ![h].retries = Retries]
    /\ UNCHANGED <<impl, store, clock, callVars, roomVars>>

\* One attempt of generateChallengeScenario under withRetry: the call yields a
\* scenario, yields text parseResponse turns into {}, or fails; a failure
\* with no retries left is rethrown into the handler's catch branch.
AiAttempt(h, outcome, sc) ==
    /\ handler[h].pc = "generating"
    /\ handler' = [handler EXCEPT ![h] =
          IF outcome = "scenario"
          THEN [@ EXCEPT !.pc = "publish", !.scenario = sc, !.retries = 0]
          ELSE IF outcome = "unparsable"
          THEN [@ EXCEPT !.pc = "publish", !.scenario = UndefinedScenario, !.retries = 0]
          ELSE IF @.retries <= 0 THEN [@ EXCEPT !.pc = "fallback", !.threw = TRUE]
          ELSE [@ EXCEPT !.retries = @ - 1]]
    /\ UNCHANGED <<impl, store, clock, arena, callVars, roomVars>>

\* await setSessionScenario(code, ...): it never throws. Firestore rejects
\* undefined field values and a missing document; localStorage saves what it
\* is given, and an undefined field is dropped by JSON.stringify.
PublishScenario(h, ok) ==
    LET sc == IF handler[h].pc = "fallback" THEN FallbackScenario ELSE handler[h].scenario
        c == handler[h].code
        goes == /\ store[c].exists
                /\ StoreOk(ok)
                /\ impl = "firebase" => sc # UndefinedScenario
    IN
    /\ handler[h].pc \in {"publish", "fallback"}
    /\ store' = IF goes THEN [store EXCEPT ![c] = ScenarioWrite(@, sc)] ELSE store
    /\ handler' = [handler EXCEPT ![h].pc = "finish", ![h].scenario = UndefinedScenario,
                                   ![h].sent = sc, ![h].stored = goes]
    /\ UNCHANGED <<impl, clock, arena, callVars, roomVars>>

ReadyAfterFallbackMissing(threw) == ~threw

\* Both branches end with setGeneratedTaskReady(true).
ReadyAfterPublish(threw) == TRUE

\* The handler resumes after setSessionScenario: local task, ready flag, and
\* the finally block.
FinishGeneration(h) ==
    /\ handler[h].pc = "finish"
    /\ arena' = [arena EXCEPT !.task = handler[h].sent.taskDescription,
                              !.checkpoints = handler[h].sent.checkpoints,
                              !.completed = {},
                              !.generatedTaskReady =
                                  IF ReadyAfterPublish(handler[h].threw) THEN TRUE ELSE @,
                              !.isGeneratingTask = FALSE]
    /\ handler' = [handler EXCEPT ![h].pc = "done"]
    /\ UNCHANGED <<impl, store, clock, callVars, roomVars>>

\* The START RACE button, rendered for the host of the waiting room once
\* generation is over and enabled once generatedTaskReady.
HandleStartPrivateRace(ok) ==
    /\ arena.mode = "waiting" /\ ~arena.isGeneratingTask
    /\ arena.isHost /\ arena.sessionCode # 0
    /\ arena.generatedTaskReady
    /\ clock <= MaxClock
    /\ clock' = clock + 1
    /\ store' = IF StoreOk(ok) /\ store[arena.sessionCode].exists
                THEN [store EXCEPT ![arena.sessionCode] = StartWrite(@, clock)]
                ELSE store
    /\ UNCHANGED <<impl, arena, handler, callVars, roomVars>>

\* Leave Lobby / Forfeit.
HandleLeaveLobby(ok) ==
    /\ arena.mode \in {"waiting", "race"}
    /\ store' = ArenaLeaveSession(arena.sessionCode, ok)
    /\ arena' = LeftLobby(arena)
    /\ UNCHANGED <<impl, clock, handler, callVars, roomVars>>

\* The user who hosts the session the arena client joins by code.
RemoteHost == 2

\* handleJoinSession from the lobby, with joinSession committed at once: on
\* success the client enters the waiting room as a guest; otherwise it shows
\* an alert and stays where it is.
HandleJoinSession(code, ok) ==
    LET data == store[code]
        isAlreadyIn == IsAlreadyIn(data.participants, HostUser)
        success == /\ StoreOk(ok) /\ data.exists
                   /\ ~JoinRejected(data.status, isAlreadyIn)
    IN
    /\ arena.mode = "lobby"
    /\ IF success
       THEN /\ store' = IF isAlreadyIn THEN store
                        ELSE [store EXCEPT ![code].participants =
                                 Append(@, NewParticipant(HostUser, "P"))]
            /\ arena' = [arena EXCEPT !.sessionCode = code, !.isHost = FALSE,
                                      !.isPrivate = TRUE, !.mode = "waiting",
                                      !.heard = "none", !.errored = FALSE]
       ELSE UNCHANGED <<store, arena>>
    /\ UNCHANGED <<impl, clock, handler, callVars, roomVars>>

SessionStartsOnChange(a, data) ==
    a.mode = "waiting" /\ data.status = "active" /\ a.heard = "data"

\* The callback's test for the start of the session: the mode of its render
\* and the status of the snapshot it was given, nothing else.
SessionStarts(a, data) == a.mode = "waiting" /\ data.status = "active"

\* The subscription callback with the current document, or with null when
\* the Firestore listener errors. When the mode changes, the cleanup of the
\* effect keyed on [sessionCode, mode, user.id] runs with the old mode and
\* calls leaveSession.
SessionSnapshot(ok, okLeave) ==
    LET data == IF StoreOk(ok) THEN SubscribeToSession(arena.sessionCode) ELSE Null
        told == [arena EXCEPT !.heard = IF data = Null THEN "null" ELSE "data",
                              !.errored = ~StoreOk(ok)]
    IN
    /\ arena.sessionCode # 0
    /\ IF data # Null
       THEN IF SessionStarts(arena, data)
            THEN /\ arena' = ProgressSync(
                                [told EXCEPT !.participants = data.participants,
                                             !.task = data.taskDescription,
                                             !.checkpoints = data.checkpoints,
                                             !.completed = {},
                                             !.mode = "race", !.isPrivate = TRUE,
                                             !.generatedTaskReady = TRUE])
                 /\ store' = CleanupLeave(arena, okLeave)
            ELSE /\ arena' = ProgressSync([told EXCEPT !.participants = data.participants])
                 /\ UNCHANGED store
       ELSE IF arena.mode \in {"waiting", "race"}
       THEN /\ store' = ArenaLeaveSession(arena.sessionCode, okLeave)
            /\ arena' = LeftLobby(told)
       ELSE /\ arena' = told
            /\ UNCHANGED store
    /\ UNCHANGED <<impl, clock, handler, callVars, roomVars>>

\* An updateProgress call of the client settles: the transaction committed,
\* or the store failed and the error was swallowed.
ProgressWritten(w, ok) ==
    /\ w \in arena.pending
    /\ arena' = [arena EXCEPT !.pending = @ \ {w}]
    /\ store' = IF StoreOk(ok) /\ store[w.code].exists
                THEN [store EXCEPT ![w.code].participants =
                                      MapProgress(@, HostUser, w.progress, w.status)]
                ELSE store
    /\ UNCHANGED <<impl, clock, handler, callVars, roomVars>>

\* The results screen's Return to Lobby button: setMode('lobby') and nothing else.
ReturnToLobby ==
    /\ arena.mode = "results"
    /\ arena' = [arena EXCEPT !.mode = "lobby"]
    /\ UNCHANGED <<impl, store, clock, handler, callVars, roomVars>>

\* Find Match.
FindMatch ==
    /\ arena.mode = "lobby"
    /\ arena' = [arena EXCEPT !.mode = "queue"]
    /\ UNCHANGED <<impl, store, clock, handler, callVars, roomVars>>

\* The participants of a public race: the user and three bots.
Bot(i) ==
    [id |-> 0 - i, name |-> 0 - i, avatar |-> "BOT",
     progress |-> 0, score |-> 0, status |-> "coding", isBot |-> TRUE]
Me ==
    [id |-> HostUser, name |-> HostUser, avatar |-> "ME",
     progress |-> 0, score |-> 0, status |-> "coding", isBot |-> FALSE]

\* startPublicRace, once generateChallengeScenario has resolved.
ArenaStartPublicRace(sc) ==
    /\ arena.mode = "queue"
    /\ arena' = ProgressSync(
                   [arena EXCEPT !.task = sc.taskDescription,
                                 !.checkpoints = sc.checkpoints,
                                 !.completed = {},
                                 !.isPrivate = FALSE,
                                 !.participants = <<Me, Bot(1), Bot(2), Bot(3)>>,
                                 !.mode = "race"])
    /\ UNCHANGED <<impl, store, clock, handler, callVars, roomVars>>

\* The race loop's countdown reaches zero: setMode('results').
RaceTimeUp(okLeave) ==
    /\ arena.mode = "race"
    /\ arena' = [arena EXCEPT !.mode = "results"]
    /\ store' = CleanupLeave(arena, okLeave)
    /\ UNCHANGED <<impl, clock, handler, callVars, roomVars>>

\* handleValidateCheckpoint, up to its await.
ArenaValidateCheckpoint(cp) ==
    /\ arena.mode = "race"
    /\ arena.validating = 0
    /\ \E i \in 1..Len(arena.checkpoints) : arena.checkpoints[i] = cp
    /\ arena' = [arena EXCEPT !.validating = cp,
                              !.seen = [completed |-> arena.completed,
                                        total |-> Len(arena.checkpoints),
                                        isPrivate |-> arena.isPrivate,
                                        sessionCode |-> arena.sessionCode]]
    /\ UNCHANGED <<impl, store, clock, handler, callVars, roomVars>>

\* Math.floor((stepsCompleted / total) * 100) for checkpoint cp, with the
\* completed flags of the handler's closure.
NewProg(a) ==
    ((Cardinality(a.seen.completed \ {a.validating}) + 1) * 100) \div a.seen.total

\* validateChallengeStep resolves and handleValidateCheckpoint runs on: the
\* checkpoint is marked, the client's own entry gets newProg, and at 100 the
\* updater sets the mode to results and calls updateProgress(…, 100, 'finished').
ArenaCheckpointValidated(passed, okLeave) ==
    LET mine == IsAlreadyIn(arena.participants, HostUser)
        newProg == NewProg(arena)
        advance(p) == IF p.isBot \/ p.id # HostUser THEN p
                      ELSE [p EXCEPT !.progress = newProg]
        finished == mine /\ newProg = 100
        after == [arena EXCEPT
                    !.validating = 0,
                    !.completed = @ \cup {arena.validating},
                    !.participants = [i \in 1..Len(@) |-> advance(@[i])],
                    !.mode = IF finished THEN "results" ELSE @,
                    !.seen = NoClosure,
                    !.pending = IF finished /\ arena.seen.isPrivate /\ arena.seen.sessionCode # 0
                                THEN @ \cup {[code |-> arena.seen.sessionCode,
                                              progress |-> 100, status |-> "finished"]}
                                ELSE @]
    IN
    /\ arena.validating # 0
    /\ IF passed
       THEN /\ arena' = ProgressSync(after)
            /\ store' = IF after.mode # arena.mode THEN CleanupLeave(arena, okLeave) ELSE store
       ELSE /\ arena' = [arena EXCEPT !.validating = 0, !.seen = NoClosure]
            /\ UNCHANGED store
    /\ UNCHANGED <<impl, clock, handler, callVars, roomVars>>

\* One step of a running handleCreatePrivateSession invocation.
HandlerStep(h) ==
    \/ EnterWaitingRoom(h)
    \/ \E o \in AiOutcomes, sc \in Scenarios : AiAttempt(h, o, sc)
    \/ \E ok \in BOOLEAN : PublishScenario(h, ok)
    \/ FinishGeneration(h)

\* ------------------------------------------------------------- ExamRoom
\* Ticks a section's countdown starts with.
SectionTime == 2

\* addViolation calls the model follows.
MaxEvents == 7

\* Environment checks that can be awaiting their result at once.
MaxEnvChecks == 1

\* finishExam invocations that can be awaiting gradeExamSections at once.
MaxGrading == 2

MAX_VIOLATIONS == 5

ExamStatuses ==
    {"payment", "setup", "loading", "mcq", "theory", "practical", "grading", "results", "failed"}

\* The sections in which the monitoring and timer effects are installed.
ActiveSections == {"mcq", "theory", "practical"}

\* Stripe's return parameters in location.search.
PaymentParams == {"none", "success", "canceled"}

\* How gradeExamSections ends: a total of at least 60, a lower total, or an
\* error once withRetry has given up.
GradingOutcomes == {"pass", "low", "error"}

\* The component as mounted: useState's initial values, lastViolationRef 0
\* (dampened: less than 2000 ms have passed since the last recorded violation).
MountedExam ==
    [status |-> "payment", timeLeft |-> 0, violations |-> 0, dampened |-> FALSE,
     envChecks |-> 0, loading |-> 0, grading |-> 0,
     hasExamAccess |-> FALSE, isCertified |-> FALSE, fed |-> 0]

\* addViolation's test on the new list length.
FailsExam(n) == n > MAX_VIOLATIONS

\* addViolation(msg): dropped within 2000 ms of the last recorded violation,
\* otherwise appended, and the exam fails once the list is long enough.
AddViolation(e) ==
    IF e.dampened THEN [e EXCEPT !.fed = @ + 1]
    ELSE [e EXCEPT !.fed = @ + 1, !.violations = @ + 1, !.dampened = TRUE,
                   !.status = IF FailsExam(e.violations + 1) THEN "failed" ELSE @]

\* n calls of addViolation in a row, within the same callback.
RECURSIVE AddViolations(_, _)
AddViolations(e, n) == IF n = 0 THEN e ELSE AddViolations(AddViolation(e), n - 1)

\* The access-check effect: it runs on mount and again whenever App renders
\* with a new user object or callback, whatever the exam status is.
ExamAccessCheck(param) ==
    /\ exam' = IF exam.hasExamAccess THEN [exam EXCEPT !.status = "setup"]
               ELSE IF param = "success"
               THEN [exam EXCEPT !.status = "setup", !.hasExamAccess = TRUE]
               ELSE [exam EXCEPT !.status = "payment"]
    /\ UNCHANGED <<impl, store, clock, callVars, hostVars, notExam>>

\* startExam up to its await of generateExamMCQs.
StartExam ==
    /\ exam.status = "setup"
    /\ exam.loading = 0
    /\ exam' = [exam EXCEPT !.status = "loading", !.loading = 1]
    /\ UNCHANGED <<impl, store, clock, callVars, hostVars, notExam>>

\* startExam resumes: the MCQ section opens with its countdown.
ExamLoaded ==
    /\ exam.loading > 0
    /\ exam' = [exam EXCEPT !.status = "mcq", !.timeLeft = SectionTime, !.loading = 0]
    /\ UNCHANGED <<impl, store, clock, callVars, hostVars, notExam>>

\* 2000 ms have passed since the last recorded violation.
ExamDampeningOver ==
    /\ exam.dampened
    /\ exam' = [exam EXCEPT !.dampened = FALSE]
    /\ UNCHANGED <<impl, store, clock, callVars, hostVars, notExam>>

\* A blur, visibilitychange, copy, paste or contextmenu event reaches its
\* listener, installed while a section is active.
ExamViolationEvent ==
    /\ exam.status \in ActiveSections
    /\ exam.fed < MaxEvents
    /\ exam' = AddViolation(exam)
    /\ UNCHANGED <<impl, store, clock, callVars, hostVars, notExam>>

\* The camera interval fires: analyzeEnvironmentSnapshot is started and not awaited.
ExamCamCheck ==
    /\ exam.status \in ActiveSections
    /\ exam.envChecks < MaxEnvChecks
    /\ exam' = [exam EXCEPT !.envChecks = @ + 1]
    /\ UNCHANGED <<impl, store, clock, callVars, hostVars, notExam>>

\* An environment check settles, whatever the status is by then: one
\* addViolation call for each of lighting, singlePerson, noDevices that is false.
ExamCamResult(failed) ==
    /\ exam.envChecks > 0
    /\ exam.fed + failed <= MaxEvents
    /\ exam' = AddViolations([exam EXCEPT !.envChecks = @ - 1], failed)
    /\ UNCHANGED <<impl, store, clock, callVars, hostVars, notExam>>

\* finishExam up to its await of gradeExamSections.
FinishExam(e) == [e EXCEPT !.status = "grading", !.grading = @ + 1]

\* handleSectionSubmit as rendered with status st.
HandleSectionSubmit(e, st) ==
    IF st = "mcq" THEN [e EXCEPT !.status = "theory", !.timeLeft = SectionTime]
    ELSE IF st = "theory" THEN [e EXCEPT !.status = "practical", !.timeLeft = SectionTime]
    ELSE IF st = "practical" THEN FinishExam(e)
    ELSE e

\* The Submit Section button.
ExamSubmitSection ==
    /\ exam.status \in ActiveSections
    /\ exam' = HandleSectionSubmit(exam, exam.status)
    /\ exam'.grading <= MaxGrading
    /\ UNCHANGED <<impl, store, clock, callVars, hostVars, notExam>>

\* The timer interval fires. At prev <= 1 the updater calls
\* handleSectionSubmit and returns 0. An updater with side effects is outside
\* React's contract: when React runs it at dispatch, the 0 it returns is queued
\* after the section's setTimeLeft and wins; when React runs it while
\* rendering, the section's time wins, and a development build under
\* StrictMode (index.tsx) runs it twice.
ExamTick(eager, twice) ==
    LET once == HandleSectionSubmit(exam, exam.status)
        sub == IF twice /\ ~eager THEN HandleSectionSubmit(once, exam.status) ELSE once
    IN
    /\ exam.status \in ActiveSections
    /\ exam' = IF exam.timeLeft <= 1
               THEN IF eager \/ exam.status = "practical"
                    THEN [sub EXCEPT !.timeLeft = 0]
                    ELSE sub
               ELSE [exam EXCEPT !.timeLeft = @ - 1]
    /\ exam'.grading <= MaxGrading
    /\ UNCHANGED <<impl, store, clock, callVars, hostVars, notExam>>

\* finishExam resumes after gradeExamSections: a total of 60 or more
\* certifies the user, and the status becomes results; if grading threw
\* nothing more happens.
ExamGraded(outcome) ==
    /\ exam.grading > 0
    /\ exam' = IF outcome = "error" THEN [exam EXCEPT !.grading = @ - 1]
               ELSE [exam EXCEPT !.grading = @ - 1, !.status = "results",
                                 !.isCertified = @ \/ outcome = "pass"]
    /\ UNCHANGED <<impl, store, clock, callVars, hostVars, notExam>>

\* ------------------------------------------------------------ TrialRoom
\* Ticks the trial's countdown starts with.
TrialTime == 2

\* The largest value the model follows each anti-cheat counter to.
MaxCount == 3
MaxRounds == 2
InterviewTime == 2
MaxPending == 4
RaceTime == 8
MaxCheckpoint == 2
MaxFnCalls == 4

MAX_TAB_SWITCHES == 2

MAX_PASTES == 0

MAX_FOCUS_LOST_TIME == 5000

MAX_ENV_VIOLATIONS == 2

TrialStatuses == {"generating", "setup", "active", "analyzing", "completed"}

\* Milliseconds a tab can have been hidden for when it shows again.
LostTimes == {3000, 6000}

\* How evaluatePerformance ends: with scores, or with the error withRetry rethrows.
EvaluationOutcomes == {"score", "error"}

\* The AntiCheatLog of useState; environmentViolations is the list's length.
EmptyLog == [tabSwitchCount |-> 0, pasteCount |-> 0, focusLostTime |-> 0,
             environmentViolations |-> 0]

\* The component as mounted. closure is the antiCheat value seen by the
\* handleSubmit the timer interval calls; verdict, feedback, read, submits and
\* aiCalls record what handleSubmit did.
MountedTrial ==
    [status |-> "generating", timeLeft |-> TrialTime, antiCheat |-> EmptyLog,
     closure |-> EmptyLog, hidden |-> FALSE, envChecks |-> 0, evaluating |-> 0,
     verdict |-> "none", feedback |-> {}, read |-> EmptyLog, submits |-> 0, aiCalls |-> 0]

\* handleSubmit's strict integrity check: the rules the log breaks.
IntegrityViolations(log) ==
    (IF log.pasteCount > MAX_PASTES THEN {"Clipboard misuse detected."} ELSE {})
    \cup (IF log.tabSwitchCount > MAX_TAB_SWITCHES
          THEN {"Excessive window switching."} ELSE {})
    \cup (IF log.focusLostTime > MAX_FOCUS_LOST_TIME THEN {"Extended absence."} ELSE {})
    \cup (IF log.environmentViolations > MAX_ENV_VIOLATIONS
          THEN {"Persistent environment security violations."} ELSE {})

\* handleSubmit, as created by the render whose antiCheat is log, up to its
\* return or its await of evaluatePerformance.
HandleSubmit(t, log) ==
    LET violations == IntegrityViolations(log)
        u == [t EXCEPT !.read = log, !.submits = @ + 1]
    IN
    IF violations # {}
    THEN [u EXCEPT !.status = "completed", !.verdict = "void", !.feedback = violations]
    ELSE [u EXCEPT !.status = "analyzing", !.evaluating = @ + 1, !.aiCalls = @ + 1]

\* The init effect's generateSkillTrial settles.
TrialGenerated ==
    /\ trial.status = "generating"
    /\ trial' = [trial EXCEPT !.status = "setup"]
    /\ UNCHANGED <<impl, store, clock, callVars, hostVars, notTrial>>

\* beginActiveTrial; the effects keyed on session.status run with this
\* render's handleSubmit.
BeginActiveTrial ==
    /\ trial.status = "setup"
    /\ trial' = [trial EXCEPT !.status = "active", !.closure = trial.antiCheat]
    /\ UNCHANGED <<impl, store, clock, callVars, hostVars, notTrial>>

\* visibilitychange with document.hidden: blurTimeRef is set.
TrialHidden ==
    /\ trial.status = "active"
    /\ ~trial.hidden
    /\ trial' = [trial EXCEPT !.hidden = TRUE]
    /\ UNCHANGED <<impl, store, clock, callVars, hostVars, notTrial>>

\* visibilitychange with the document visible again after lost milliseconds.
TrialVisible(lost) ==
    /\ trial.status = "active"
    /\ trial.hidden
    /\ trial.antiCheat.tabSwitchCount < MaxCount
    /\ trial' = [trial EXCEPT !.hidden = FALSE,
                              !.antiCheat.tabSwitchCount = @ + 1,
                              !.antiCheat.focusLostTime = @ + lost]
    /\ UNCHANGED <<impl, store, clock, callVars, hostVars, notTrial>>

\* A paste event.
TrialPaste ==
    /\ trial.status = "active"
    /\ trial.antiCheat.pasteCount < MaxCount
    /\ trial' = [trial EXCEPT !.antiCheat.pasteCount = @ + 1]
    /\ UNCHANGED <<impl, store, clock, callVars, hostVars, notTrial>>

\* The heartbeat interval fires: analyzeEnvironmentSnapshot is started and not awaited.
TrialProctorCheck ==
    /\ trial.status = "active"
    /\ trial.envChecks < MaxEnvChecks
    /\ trial' = [trial EXCEPT !.envChecks = @ + 1]
    /\ UNCHANGED <<impl, store, clock, callVars, hostVars, notTrial>>

\* A heartbeat check settles, whatever the status is by then.
TrialProctorResult(clean) ==
    /\ trial.envChecks > 0
    /\ trial.antiCheat.environmentViolations < MaxCount
    /\ trial' = [trial EXCEPT !.envChecks = @ - 1,
                              !.antiCheat.environmentViolations =
                                  IF clean THEN @ ELSE @ + 1]
    /\ UNCHANGED <<impl, store, clock, callVars, hostVars, notTrial>>

\* The submit button, rendered while the trial is active.
TrialSubmit ==
    /\ trial.status = "active"
    /\ trial' = HandleSubmit(trial, trial.antiCheat)
    /\ UNCHANGED <<impl, store, clock, callVars, hostVars, notTrial>>

\* The timer interval fires; at t <= 1 the updater calls the handleSubmit of
\* the render that installed the interval, once, or twice in a development
\* build under StrictMode.
TrialTick(twice) ==
    LET once == HandleSubmit(trial, trial.closure)
        sub == IF twice THEN HandleSubmit(once, trial.closure) ELSE once
    IN
    /\ trial.status = "active"
    /\ trial' = IF trial.timeLeft <= 1 THEN [sub EXCEPT !.timeLeft = 0]
                ELSE [trial EXCEPT !.timeLeft = @ - 1]
    /\ UNCHANGED <<impl, store, clock, callVars, hostVars, notTrial>>

\* handleSubmit resumes after evaluatePerformance, or is rejected by it.
TrialEvaluated(outcome) ==
    /\ trial.evaluating > 0
    /\ trial' = IF outcome = "error" THEN [trial EXCEPT !.evaluating = @ - 1]
                ELSE [trial EXCEPT !.evaluating = @ - 1, !.status = "completed",
                                   !.verdict = "ai"]
    /\ UNCHANGED <<impl, store, clock, callVars, hostVars, notTrial>>

\* -------------------------------------------------------- InterviewRoom
QUESTIONS_COUNT == 20

InterviewStatuses == {"setup", "intro", "active", "evaluating", "summary"}
AiStates == {"idle", "speaking_question", "listening", "processing", "speaking_feedback"}

\* The entries of currentRoundViolations. Only its emptiness and its joined
\* text are read, so the list is kept as the set of its entries; the three
\* proctoring messages are one entry.
RoundViolations == {"Tab Switch", "Environment"}

\* The scores evaluateInterviewResponse resolves with.
AnswerScores == {0, 50}
JudgeOutcomes == {"resolve", "throw"}

\* What a submitAnswer closure holds of the render that created it.
Render(iv) ==
    [violations |-> iv.violations, round |-> iv.round, history |-> iv.history]

MountedInterview ==
    [status     |-> "setup",
     aiState    |-> "idle",
     round      |-> 0,
     timeLeft   |-> 0,
     violations |-> {},
     history    |-> <<>>,
     closure    |-> [violations |-> {}, round |-> 0, history |-> <<>>],
                        \* the render whose submitAnswer the timer calls
     answering  |-> <<>>,   \* submitAnswer calls awaiting evaluateInterviewResponse
     nexts      |-> <<>>,   \* rounds of the nextQuestion calls that speech will make
     generating |-> 0,      \* nextQuestion calls awaiting generateInterviewQuestion
     asking     |-> 0,      \* question utterances that have not ended
     envChecks  |-> 0,      \* analyzeEnvironmentSnapshot calls in flight
     submits    |-> 0]      \* history: number of submitAnswer invocations

RemoveAt(seq, i) == SubSeq(seq, 1, i - 1) \o SubSeq(seq, i + 1, Len(seq))

\* n invocations of the submitAnswer of render r, up to its await. Each call
\* keeps r, and (history) the violation list of the render current at the call.
SubmitAnswer(iv, r, n) ==
    LET call == [violations |-> r.violations, round |-> r.round,
                 history |-> r.history, atSubmit |-> iv.violations]
    IN  [iv EXCEPT !.aiState = "processing",
                   !.answering = @ \o [i \in 1..n |-> call],
                   !.submits = @ + n]

\* startInterview: the welcome speech ends with nextQuestion(1).
StartInterview ==
    /\ interview.status = "setup"
    /\ interview' = [interview EXCEPT !.status = "intro", !.nexts = <<1>>]
    /\ UNCHANGED <<impl, store, clock, callVars, hostVars, notInterview>>

\* nextQuestion(roundNum), up to its await.
NextQuestion(i) ==
    /\ i \in 1..Len(interview.nexts)
    /\ interview.nexts[i] <= MaxRounds
    /\ LET roundNum == interview.nexts[i]
           reset == [interview EXCEPT !.violations = {}, !.nexts = RemoveAt(@, i)]
       IN  interview' =
             IF roundNum > QUESTIONS_COUNT
             THEN [reset EXCEPT !.status = "summary", !.aiState = "idle"]
             ELSE [reset EXCEPT !.round = roundNum, !.aiState = "processing",
                                !.generating = @ + 1]
    /\ UNCHANGED <<impl, store, clock, callVars, hostVars, notInterview>>

\* generateInterviewQuestion settles; when it throws nextQuestion ends there.
QuestionGenerated(outcome) ==
    /\ interview.generating > 0
    /\ interview' =
         IF outcome = "throw"
         THEN [interview EXCEPT !.generating = @ - 1]
         ELSE [interview EXCEPT !.generating = @ - 1,
                                !.timeLeft = InterviewTime,
                                !.status = "active",
                                !.aiState = "speaking_question",
                                !.asking = @ + 1]
    /\ UNCHANGED <<impl, store, clock, callVars, hostVars, notInterview>>

\* The question utterance ends: startListeningPhase. The timer effect runs
\* when aiState changes to listening and keeps that render's submitAnswer.
StartListeningPhase ==
    /\ interview.asking > 0
    /\ interview' =
         [interview EXCEPT !.asking = @ - 1,
                           !.aiState = "listening",
                           !.closure = IF interview.aiState = "listening"
                                       THEN @ ELSE Render(interview)]
    /\ UNCHANGED <<impl, store, clock, callVars, hostVars, notInterview>>

\* handleVisibility with document.hidden.
InterviewTabSwitch ==
    /\ interview.status = "active"
    /\ interview' = [interview EXCEPT !.violations = @ \cup {"Tab Switch"}]
    /\ UNCHANGED <<impl, store, clock, callVars, hostVars, notInterview>>

\* performCheck: a snapshot goes to analyzeEnvironmentSnapshot.
InterviewMonitorCheck ==
    /\ interview.status \in {"active", "evaluating"}
    /\ interview.envChecks < MaxEnvChecks
    /\ interview' = [interview EXCEPT !.envChecks = @ + 1]
    /\ UNCHANGED <<impl, store, clock, callVars, hostVars, notInterview>>

\* The snapshot analysis resolves.
InterviewMonitorResult(clean) ==
    /\ interview.envChecks > 0
    /\ interview' =
         [interview EXCEPT !.envChecks = @ - 1,
                           !.violations = IF clean THEN @ ELSE @ \cup {"Environment"}]
    /\ UNCHANGED <<impl, store, clock, callVars, hostVars, notInterview>>

\* The submit button, enabled while listening.
InterviewSubmit ==
    /\ interview.aiState = "listening"
    /\ interview' = SubmitAnswer(interview, Render(interview), 1)
    /\ UNCHANGED <<impl, store, clock, callVars, hostVars, notInterview>>

\* One tick of the timer. submitAnswer is called inside the updater, which a
\* development build (StrictMode) runs twice.
InterviewTick(twice) ==
    /\ interview.aiState = "listening"
    /\ interview' =
         IF interview.timeLeft <= 1
         THEN [SubmitAnswer(interview, interview.closure, IF twice THEN 2 ELSE 1)
                 EXCEPT !.timeLeft = 0]
         ELSE [interview EXCEPT !.timeLeft = @ - 1]
    /\ UNCHANGED <<impl, store, clock, callVars, hostVars, notInterview>>

\* evaluateInterviewResponse settles for the i-th waiting submitAnswer, which
\* then runs to its end; when the call throws submitAnswer ends there.
AnswerEvaluated(i, outcome, score) ==
    /\ i \in 1..Len(interview.answering)
    /\ LET call == interview.answering[i]
           result == IF call.violations # {} THEN 0 ELSE score
           rest == [interview EXCEPT !.answering = RemoveAt(@, i)]
       IN  interview' =
             IF outcome = "throw"
             THEN rest
             ELSE [rest EXCEPT !.history = Append(call.history,
                                                  [round |-> call.round, score |-> result]),
                               !.aiState = "speaking_feedback",
                               !.nexts = Append(@, call.round + 1)]
    /\ UNCHANGED <<impl, store, clock, callVars, hostVars, notInterview>>

\* ------------------------------------------- ChallengeArena (public race)
NumBots == 3
RaceModes == {"lobby", "queue", "race", "results"}

\* Math.floor(Math.random() * 15) for a bot that moves, 0 for one that does not.
BotGains == {0, 14}

\* [me, ...bots]: the user has id 0 and bot-i has id i + 1, so a racer's id is
\* its place in the join order.
Racer(i) == [id |-> i, progress |-> 0, status |-> "coding", isBot |-> i > 0]
StartingGrid == [i \in 1..(NumBots + 1) |-> Racer(i - 1)]

LobbyRace ==
    [mode         |-> "lobby",
     participants |-> <<>>,
     timeLeft     |-> RaceTime,
     checkpoints  |-> <<>>,     \* ids of the scenario's checkpoints
     completed    |-> {},       \* ids of the checkpoints marked completed
     validating   |-> 0]        \* the checkpoint handleValidateCheckpoint awaits, or 0

\* Array.prototype.sort((a, b) => b.progress - a.progress): stable, descending.
InsertByProgress(sorted, p) ==
    LET k == Cardinality({i \in 1..Len(sorted) : sorted[i].progress >= p.progress})
    IN  SubSeq(sorted, 1, k) \o <<p>> \o SubSeq(sorted, k + 1, Len(sorted))

RECURSIVE SortByProgress(_)
SortByProgress(ps) ==
    IF ps = <<>> THEN <<>>
    ELSE InsertByProgress(SortByProgress(SubSeq(ps, 1, Len(ps) - 1)), ps[Len(ps)])

\* A render of the race or results view: participants.sort(...) sorts the
\* array held in state in place.
Rendered(r) ==
    IF r.mode \in {"race", "results"}
    THEN [r EXCEPT !.participants = SortByProgress(@)]
    ELSE r

MoveBotUnfinished(p, gain) ==
    IF ~p.isBot \/ p.status = "finished" THEN p
    ELSE [p EXCEPT !.progress = IF @ + gain > 100 THEN 100 ELSE @ + gain]

\* The bot simulation's map over the previous array.
MoveBot(p, gain) ==
    IF ~p.isBot \/ p.status = "finished" THEN p
    ELSE LET newProgress == IF p.progress + gain > 100 THEN 100 ELSE p.progress + gain
         IN  IF newProgress >= 100
             THEN [p EXCEPT !.progress = 100, !.status = "finished"]
             ELSE [p EXCEPT !.progress = newProgress]

\* The lobby's public race button.
EnterQueue ==
    /\ race.mode = "lobby"
    /\ race' = [race EXCEPT !.mode = "queue"]
    /\ UNCHANGED <<impl, store, clock, callVars, hostVars, notRace>>

\* startPublicRace, once generateChallengeScenario has resolved.
StartPublicRace(sc) ==
    /\ race.mode = "queue"
    /\ race' = Rendered([race EXCEPT !.mode = "race",
                                     !.participants = StartingGrid,
                                     !.checkpoints = sc.checkpoints])
    /\ UNCHANGED <<impl, store, clock, callVars, hostVars, notRace>>

\* One run of the race loop's interval: the countdown and the bots.
RaceTick(gains) ==
    /\ race.mode = "race"
    /\ race' = Rendered(
         [race EXCEPT !.mode = IF race.timeLeft <= 0 THEN "results" ELSE @,
                      !.timeLeft = IF race.timeLeft <= 0 THEN 0 ELSE @ - 1,
                      !.participants =
                          [i \in 1..Len(@) |-> MoveBot(@[i], gains[@[i].id])]])
    /\ UNCHANGED <<impl, store, clock, callVars, hostVars, notRace>>

\* handleValidateCheckpoint, up to its await.
ValidateCheckpoint(cp) ==
    /\ race.mode = "race"
    /\ race.validating = 0
    /\ \E i \in 1..Len(race.checkpoints) : race.checkpoints[i] = cp
    /\ race' = Rendered([race EXCEPT !.validating = cp])
    /\ UNCHANGED <<impl, store, clock, callVars, hostVars, notRace>>

\* validateChallengeStep resolves.
CheckpointValidated(passed) ==
    /\ race.validating # 0
    /\ LET cp == race.validating
           stepsCompleted == Cardinality(race.completed \ {cp}) + 1
           newProg == (stepsCompleted * 100) \div Len(race.checkpoints)
           advance(p) == IF p.isBot THEN p ELSE [p EXCEPT !.progress = newProg]
       IN  race' = Rendered(
             IF ~passed
             THEN [race EXCEPT !.validating = 0]
             ELSE [race EXCEPT !.validating = 0,
                               !.completed = @ \cup {cp},
                               !.mode = IF newProg = 100 THEN "results" ELSE @,
                               !.participants = [i \in 1..Len(@) |-> advance(@[i])]])
    /\ UNCHANGED <<impl, store, clock, callVars, hostVars, notRace>>

\* ------------------------------------------------------ gemini.withRetry
\* withRetry's default delay, in ms.
Delay == 1000

\* The (retries, delay) pairs withRetry is called with: the defaults, and
\* analyzeEnvironmentSnapshot's single retry after 3 s.
RetryArgs == {<<Retries, Delay>>, <<1, 3000>>}

\* fn: what its successive invocations do. An invocation that resolves
\* yields its own number as the result, one that rejects its own number as
\* the error.
FnOutcomes == {"resolve", "reject"}
Fns == [1..MaxFnCalls -> FnOutcomes]

\* The three flags of an environment analysis; a field of {} is undefined.
Flags(l, s, n) == [lighting |-> l, singlePerson |-> s, noDevices |-> n]
EmptyObject == Flags("undefined", "undefined", "undefined")

\* response.text: JSON of the schema asked for, or text JSON.parse rejects.
ResponseTexts ==
    {[json |-> j, flags |-> f] :
        j \in BOOLEAN,
        f \in {Flags("true", "true", "true"), Flags("true", "false", "true"),
               Flags("false", "false", "false")}}

\* parseResponse: the parsed object, {} when JSON.parse throws.
ParseResponse(text) == IF text.json THEN text.flags ELSE EmptyObject

SnapshotFallbackOpen == Flags("true", "true", "true")

\* analyzeEnvironmentSnapshot's catch clause.
SnapshotFallback == Flags("false", "false", "false")

\* How every caller reads the result: `!result.lighting || ...` is a failed check.
SnapshotPassed(r) == r.lighting = "true" /\ r.singlePerson = "true" /\ r.noDevices = "true"

NoRetry ==
    [pc          |-> "idle",
     fn          |-> [i \in 1..MaxFnCalls |-> "resolve"],
     retries     |-> 0,
     delay       |-> 0,
     default     |-> FALSE,     \* history: called with the default arguments
     invocations |-> 0,         \* history: number of fn() invocations
     waited      |-> <<>>,      \* history: the timeouts waited, in order
     value       |-> 0,         \* the result returned or the error thrown
     analysed    |-> FALSE,     \* analyzeEnvironmentSnapshot has returned
     result      |-> EmptyObject]   \* what analyzeEnvironmentSnapshot returned

ExhaustedEarly(retries) == retries <= 1

\* `if (retries <= 0) throw error`
Exhausted(retries) == retries <= 0

\* withRetry(fn, retries, delay) is called.
WithRetry(fn, args) ==
    /\ retry.pc = "idle"
    /\ retry' = [retry EXCEPT !.pc = "try", !.fn = fn,
                              !.retries = args[1], !.delay = args[2],
                              !.default = (args = <<Retries, Delay>>)]
    /\ UNCHANGED <<impl, store, clock, callVars, hostVars, notRetry>>

\* `return await fn()` and the catch clause up to its await.
RetryAttempt ==
    /\ retry.pc = "try"
    /\ retry.invocations < MaxFnCalls
    /\ LET n == retry.invocations + 1
           called == [retry EXCEPT !.invocations = n]
       IN  retry' =
             IF retry.fn[n] = "resolve"
             THEN [called EXCEPT !.pc = "returned", !.value = n]
             ELSE IF Exhausted(retry.retries)
                  THEN [called EXCEPT !.pc = "thrown", !.value = n]
                  ELSE [called EXCEPT !.pc = "wait"]
    /\ UNCHANGED <<impl, store, clock, callVars, hostVars, notRetry>>

\* The timeout elapses: withRetry(fn, retries - 1, delay * 2).
RetryBackoff ==
    /\ retry.pc = "wait"
    /\ retry' = [retry EXCEPT !.pc = "try",
                              !.waited = Append(@, retry.delay),
                              !.retries = @ - 1,
                              !.delay = @ * 2]
    /\ UNCHANGED <<impl, store, clock, callVars, hostVars, notRetry>>

\* analyzeEnvironmentSnapshot after its withRetry(..., 1, 3000) has settled:
\* parseResponse(response.text), or the catch clause.
AnalyzeEnvironmentSnapshot(text) ==
    /\ retry.pc \in {"returned", "thrown"}
    /\ ~retry.default
    /\ ~retry.analysed
    /\ retry' = [retry EXCEPT !.analysed = TRUE,
                              !.result = IF retry.pc = "thrown" THEN SnapshotFallback
                                         ELSE ParseResponse(text)]
    /\ UNCHANGED <<impl, store, clock, callVars, hostVars, notRetry>>

\* ---------------------------------------------------------- specification
Init ==
    /\ impl \in Impls
    /\ store = [c \in Codes |-> NoDoc]
    /\ slot = [p \in Procs |-> IdleSlot]
    /\ last = NoCall
    /\ clock = 1
    /\ calls = 0
    /\ hMembers = [c \in Codes |-> {}]
    /\ hProgress = [c \in Codes |-> FreshProgress]
    /\ arena = LobbyArena
    /\ handler = [h \in Handlers |-> IdleHandler]
    /\ exam = MountedExam
    /\ trial = MountedTrial
    /\ interview = MountedInterview
    /\ race = LobbyRace
    /\ retry = NoRetry

Next ==
    \/ \E h \in Users, d \in Domains, c \in Codes, ok \in BOOLEAN : FbCreateSession(h, d, c, ok)
    \/ \E p \in Procs, c \in Codes, u \in Users, ok \in BOOLEAN : FbJoinRead(p, c, u, ok)
    \/ \E p \in Procs : FbJoinCommit(p)
    \/ \E p \in Procs, c \in Codes, u \in Users, ok \in BOOLEAN : FbLeaveRead(p, c, u, ok)
    \/ \E p \in Procs : FbLeaveCommit(p)
    \/ \E c \in Codes, sc \in Scenarios, ok \in BOOLEAN : FbSetSessionScenario(c, sc, ok)
    \/ \E c \in Codes, ok \in BOOLEAN : FbStartSession(c, ok)
    \/ \E p \in Procs, c \in Codes, u \in Users, a \in ProgressArgs, ok \in BOOLEAN :
          FbUpdateProgressRead(p, c, u, a, ok)
    \/ \E p \in Procs : FbUpdateProgressCommit(p)
    \/ \E h \in Users, d \in Domains, c \in Codes : MockCreateSession(h, d, c)
    \/ \E c \in Codes, u \in Users : MockJoinSession(c, u)
    \/ \E c \in Codes, u \in Users : MockLeaveSession(c, u)
    \/ \E c \in Codes, sc \in Scenarios : MockSetSessionScenario(c, sc)
    \/ \E c \in Codes : MockStartSession(c)
    \/ \E c \in Codes, u \in Users, a \in ProgressArgs : MockUpdateProgress(c, u, a)

Spec == Init /\ [][Next]_vars

\* The host flow of the arena client against the store.
HostNext ==
    \/ \E h \in Handlers, c \in Codes, ok \in BOOLEAN : HandleCreatePrivateSession(h, c, ok)
    \/ \E h \in Handlers : EnterWaitingRoom(h)
    \/ \E h \in Handlers, o \in AiOutcomes, sc \in Scenarios : AiAttempt(h, o, sc)
    \/ \E h \in Handlers, ok \in BOOLEAN : PublishScenario(h, ok)
    \/ \E h \in Handlers : FinishGeneration(h)
    \/ \E ok \in BOOLEAN : HandleStartPrivateRace(ok)
    \/ \E ok \in BOOLEAN : HandleLeaveLobby(ok)
    \/ \E ok, okLeave \in BOOLEAN : SessionSnapshot(ok, okLeave)
    \/ \E w \in arena.pending, ok \in BOOLEAN : ProgressWritten(w, ok)

HostSpec == Init /\ [][HostNext]_vars

\* The arena client as guest of a session that another user creates under
\* a free code, fills and starts through the service.
GuestNext ==
    \/ \E c \in Codes, ok \in BOOLEAN : HandleJoinSession(c, ok)
    \/ \E ok \in BOOLEAN : HandleLeaveLobby(ok)
    \/ \E ok, okLeave \in BOOLEAN : SessionSnapshot(ok, okLeave)
    \/ \E w \in arena.pending, ok \in BOOLEAN : ProgressWritten(w, ok)
    \/ \E c \in Codes, ok \in BOOLEAN :
          ~store[c].exists /\ FbCreateSession(RemoteHost, "Algorithms", c, ok)
    \/ \E c \in Codes : ~store[c].exists /\ MockCreateSession(RemoteHost, "Algorithms", c)
    \/ \E c \in Codes, sc \in Scenarios, ok \in BOOLEAN :
          store[c].hostId = RemoteHost /\ FbSetSessionScenario(c, sc, ok)
    \/ \E c \in Codes, sc \in Scenarios :
          store[c].hostId = RemoteHost /\ MockSetSessionScenario(c, sc)
    \/ \E c \in Codes, ok \in BOOLEAN :
          store[c].hostId = RemoteHost /\ FbStartSession(c, ok)
    \/ \E c \in Codes : store[c].hostId = RemoteHost /\ MockStartSession(c)

GuestSpec == Init /\ [][GuestNext]_vars

\* onSnapshot calls back after every change of the document and the mock
\* polls every second: a snapshot of the current document is always delivered
\* in the end.
GuestLiveSpec ==
    GuestSpec /\ WF_vars(\E okLeave \in BOOLEAN : SessionSnapshot(TRUE, okLeave))

\* The arena client through private and public races.
ArenaNext ==
    \/ HostNext
    \/ ReturnToLobby
    \/ FindMatch
    \/ \E sc \in Scenarios : ArenaStartPublicRace(sc)
    \/ \E okLeave \in BOOLEAN : RaceTimeUp(okLeave)
    \/ \E cp \in 1..3 : ArenaValidateCheckpoint(cp)
    \/ \E passed, okLeave \in BOOLEAN : ArenaCheckpointValidated(passed, okLeave)

ArenaSpec == Init /\ [][ArenaNext]_vars

\* The event loop runs every continuation that is ready, and every store and
\* AI call settles.
HostLiveSpec == HostSpec /\ \A h \in Handlers : WF_vars(HandlerStep(h))

\* The exam room, from mount on.
ExamNext ==
    \/ \E param \in PaymentParams : ExamAccessCheck(param)
    \/ StartExam
    \/ ExamLoaded
    \/ ExamDampeningOver
    \/ ExamViolationEvent
    \/ ExamCamCheck
    \/ \E failed \in 0..3 : ExamCamResult(failed)
    \/ ExamSubmitSection
    \/ \E eager, twice \in BOOLEAN : ExamTick(eager, twice)
    \/ \E outcome \in GradingOutcomes : ExamGraded(outcome)

ExamSpec == Init /\ [][ExamNext]_vars

\* The trial room, from mount on.
TrialNext ==
    \/ TrialGenerated
    \/ BeginActiveTrial
    \/ TrialHidden
    \/ \E lost \in LostTimes : TrialVisible(lost)
    \/ TrialPaste
    \/ TrialProctorCheck
    \/ \E clean \in BOOLEAN : TrialProctorResult(clean)
    \/ TrialSubmit
    \/ \E twice \in BOOLEAN : TrialTick(twice)
    \/ \E outcome \in EvaluationOutcomes : TrialEvaluated(outcome)

TrialSpec == Init /\ [][TrialNext]_vars

\* The interview room, from mount on.
InterviewNext ==
    \/ StartInterview
    \/ \E i \in 1..MaxPending : NextQuestion(i)
    \/ \E outcome \in JudgeOutcomes : QuestionGenerated(outcome)
    \/ StartListeningPhase
    \/ InterviewTabSwitch
    \/ InterviewMonitorCheck
    \/ \E clean \in BOOLEAN : InterviewMonitorResult(clean)
    \/ InterviewSubmit
    \/ \E twice \in BOOLEAN : InterviewTick(twice)
    \/ \E i \in 1..MaxPending, outcome \in JudgeOutcomes, score \in AnswerScores :
          AnswerEvaluated(i, outcome, score)

InterviewSpec == Init /\ [][InterviewNext]_vars

\* A public race against the bots, from the lobby on.
RaceNext ==
    \/ EnterQueue
    \/ \E sc \in Scenarios : StartPublicRace(sc)
    \/ \E gains \in [1..NumBots -> BotGains] : RaceTick(gains)
    \/ \E cp \in 1..MaxCheckpoint : ValidateCheckpoint(cp)
    \/ \E passed \in BOOLEAN : CheckpointValidated(passed)

RaceSpec == Init /\ [][RaceNext]_vars

\* One withRetry call, for every fn and both argument pairs.
RetryNext ==
    \/ \E fn \in Fns, args \in RetryArgs : WithRetry(fn, args)
    \/ RetryAttempt
    \/ RetryBackoff

RetrySpec == Init /\ [][RetryNext]_vars

\* An environment analysis: its withRetry call and its return.
SnapshotNext ==
    \/ RetryNext
    \/ \E text \in ResponseTexts : AnalyzeEnvironmentSnapshot(text)

SnapshotSpec == Init /\ [][SnapshotNext]_vars

TypeOK ==
    /\ impl \in Impls
    /\ calls \in 0..MaxCalls
    /\ \A c \in Codes : store[c].status \in SessionStatuses

\* ------------------------------------------------------------ properties
\* The transaction in slot p ends in this step.
Ends(p) == slot[p].phase = "read" /\ slot'[p].phase = "idle"

\* A call of operation op returns to its caller in this step: a transaction
\* ends, or a call that runs no transaction is issued.
Returns(op) ==
    /\ last'.op = op
    /\ \/ \E p \in Procs : Ends(p)
       \/ calls' = calls + 1 /\ \A p \in Procs : slot'[p].phase = slot[p].phase

\* The store itself failed (unreachable, or the transaction ran out of attempts).
StoreFailed(k) == ~k.success /\ k.message = ConnectionFailed(k.op)

\* The call that returns in this step ran against the document as it is now.
Fresh == \A p \in Procs : Ends(p) => ~slot[p].stale /\ slot[p].snap = store[slot[p].call.code]

\* C1. Concurrent join safety: every user whose createSession or joinSession
\* on a code returned success, and who has not left since, is in participants
\* exactly once, and participants holds nobody else; so two overlapping joins
\* by distinct new users grow the list by exactly 2, whichever way their
\* reads and commits interleave.
ConcurrentJoinSafety ==
    \A c \in Codes :
        store[c].exists =>
            /\ ParticipantIds(store[c].participants) = hMembers[c]
            /\ Len(store[c].participants) = Cardinality(hMembers[c])

\* The only calls were a createSession and two joins by distinct new users;
\* the joins overlapped (the one that returned last had to run again on a
\* fresh snapshot), both succeeded, and the list grew from 1 to 3.
ConcurrentJoinWitness ==
    /\ calls = 3
    /\ last.op = "joinSession" /\ last.success /\ ~last.isAlreadyIn
    /\ last.attempts = 2
    /\ Len(store[last.code].participants) = 3
    /\ Cardinality(ParticipantIds(store[last.code].participants)) = 3
    /\ hMembers[last.code] = ParticipantIds(store[last.code].participants)

\* C2. Join idempotence: a joinSession by a user who is already a participant
\* of a waiting session returns success (unless the store itself failed),
\* leaves the participants list as it was, and the user is in it exactly once.
JoinIdempotence ==
    [][LET c == last'.code
           u == last'.user
       IN  (/\ Returns("joinSession")
            /\ Fresh
            /\ ~StoreFailed(last')
            /\ store[c].exists /\ store[c].status = "waiting"
            /\ IsAlreadyIn(store[c].participants, u))
           => /\ last'.success
              /\ store'[c].participants = store[c].participants
              /\ CountId(store'[c].participants, u) = 1]_vars

\* A repeated join of a waiting session returned success.
JoinIdempotenceWitness ==
    /\ last.op = "joinSession" /\ last.success /\ last.isAlreadyIn
    /\ last.attempts = 1
    /\ store[last.code].status = "waiting"
    /\ store[last.code].hostId # last.user
    /\ CountId(store[last.code].participants, last.user) = 1

\* C3. Progress isolation: every participant carries the progress and status
\* of the last updateProgress committed for that participant (0 and coding
\* if none since joining), whatever other participants' updates overlapped it.
ProgressIsolation ==
    \A c \in Codes :
        store[c].exists =>
            \A i \in 1..Len(store[c].participants) :
                LET x == store[c].participants[i] IN
                <<x.progress, x.status>> = hProgress[c][x.id]

\* The only calls were a createSession, a join and two updates; the updates,
\* for different participants, overlapped (the one that returned last had to
\* run again) and each participant carries the values of its own update.
ProgressIsolationWitness ==
    /\ calls = 4
    /\ last.op = "updateProgress" /\ last.success /\ last.attempts = 2
    /\ Len(store[last.code].participants) = 2
    /\ \E i, j \in 1..2 :
          LET ps == store[last.code].participants IN
          /\ ps[i].id = last.user
          /\ ps[i].progress = last.progress /\ ps[i].status = last.pstatus
          /\ ps[j].id # last.user
          /\ ps[j].progress \notin {0, last.progress}

\* C4. Participant uniqueness: no two entries of a participants list share an id.
ParticipantUniqueness ==
    \A c \in Codes : \A u \in Users : CountId(store[c].participants, u) <= 1

\* The only calls were a createSession and two joins by the same new user;
\* the joins overlapped, the one that returned last ran again and then found
\* the user present, and the user is in the list once.
ParticipantUniquenessWitness ==
    /\ calls = 3
    /\ last.op = "joinSession" /\ last.success
    /\ last.isAlreadyIn /\ last.attempts = 2
    /\ store[last.code].hostId # last.user
    /\ Len(store[last.code].participants) = 2
    /\ CountId(store[last.code].participants, last.user) = 1

\* C5. Monotonic session status: the status stored under a code only ever
\* changes waiting to active or active to finished.
MonotonicStatus ==
    [][\A c \in Codes :
         store[c].exists =>
            \/ store'[c].status = store[c].status
            \/ <<store[c].status, store'[c].status>> \in
                  {<<"waiting", "active">>, <<"active", "finished">>}]_vars

\* C8. Leave does not delete: documents are never removed; a committed
\* leaveSession changes no field but participants, from which it removes the
\* leaver, so after the only participant leaves the list is empty and a
\* subscriber is handed the document, not null.
LeaveDoesNotDelete ==
    [][\A c \in Codes :
         /\ store[c].exists => store'[c].exists /\ SubscribeToSession(c)' # Null
         /\ (/\ Returns("leaveSession") /\ last'.code = c
             /\ Fresh /\ last'.success /\ store[c].exists)
            => /\ store'[c] = [store[c] EXCEPT !.participants = store'[c].participants]
               /\ store'[c].participants = FilterOut(store[c].participants, last'.user)
               /\ (ParticipantIds(store[c].participants) = {last'.user}
                      => store'[c].participants = <<>>)]_vars

\* The only participant has left: the document is there with no participants.
LeaveDoesNotDeleteWitness ==
    /\ last.op = "leaveSession" /\ last.success
    /\ store[last.code].exists
    /\ store[last.code].participants = <<>>
    /\ store[last.code].hostId = last.user
    /\ SubscribeToSession(last.code) # Null

\* C9. Join rejection: a joinSession that finds no session at the code, or a
\* session that is not waiting and of which the caller is not a participant,
\* returns success=false with a message and leaves the store unchanged; and
\* no step adds a non-member to a session that is active or finished.
JoinRejection ==
    [][/\ LET c == last'.code
              u == last'.user
          IN  (/\ Returns("joinSession")
               /\ \/ ~store[c].exists
                  \/ store[c].status # "waiting" /\ ~IsAlreadyIn(store[c].participants, u))
              => /\ ~last'.success
                 /\ last'.message # ""
                 /\ store' = store
       /\ \A c \in Codes : \A u \in Users :
            (/\ store[c].exists /\ store[c].status # "waiting"
             /\ u \notin ParticipantIds(store[c].participants)
             /\ store'[c].status # "waiting")
            => u \notin ParticipantIds(store'[c].participants)]_vars

\* A non-member was turned away from an active session.
JoinRejectionWitness ==
    /\ last.op = "joinSession" /\ ~last.success
    /\ last.message \in {"Session is already active or finished", "Session locked"}
    /\ store[last.code].status = "active"
    /\ last.user \notin ParticipantIds(store[last.code].participants)

\* C10. Re-join after start: a joinSession by a participant of a session that
\* is active or finished returns success (unless the store itself failed) and
\* leaves the participants list, entry by entry, as it was.
RejoinAfterStart ==
    [][LET c == last'.code
           u == last'.user
       IN  (/\ Returns("joinSession")
            /\ Fresh
            /\ ~StoreFailed(last')
            /\ store[c].exists /\ store[c].status # "waiting"
            /\ IsAlreadyIn(store[c].participants, u))
           => /\ last'.success
              /\ store'[c].participants = store[c].participants]_vars

\* A participant with progress re-joined an active session.
RejoinAfterStartWitness ==
    /\ last.op = "joinSession" /\ last.success /\ last.isAlreadyIn
    /\ store[last.code].status = "active"
    /\ \E i \in 1..Len(store[last.code].participants) :
          /\ store[last.code].participants[i].id = last.user
          /\ store[last.code].participants[i].progress > 0

\* C6. Scenario gating: no session is active with an empty task description
\* or an empty list of checkpoints.
ScenarioGating ==
    \A c \in Codes :
        (store[c].exists /\ store[c].status = "active")
            => store[c].taskDescription # "" /\ store[c].checkpoints # <<>>

\* C7. Fallback on adapter failure: every handleCreatePrivateSession that
\* entered the waiting room eventually ends with generatedTaskReady true and
\* isGeneratingTask false, and when the AI call failed on every attempt it has
\* by then passed the fallback scenario, with its three checkpoints, to
\* setSessionScenario and taken it as the local scenario.
FallbackOnAdapterFailure ==
    \A h \in Handlers :
        (handler[h].pc = "generating") ~>
            (/\ handler[h].pc = "done"
             /\ arena.generatedTaskReady /\ ~arena.isGeneratingTask
             /\ handler[h].threw =>
                   /\ handler[h].sent.taskDescription # ""
                   /\ Len(handler[h].sent.checkpoints) = 3
                   /\ arena.checkpoints = handler[h].sent.checkpoints)

\* The AI failed on every attempt; the fallback is stored and the host is ready.
FallbackWitness ==
    \E h \in Handlers :
        /\ handler[h].pc = "done" /\ handler[h].threw /\ handler[h].stored
        /\ arena.generatedTaskReady /\ ~arena.isGeneratingTask
        /\ arena.mode = "waiting"
        /\ store[handler[h].code].taskDescription = FallbackScenario.taskDescription
        /\ Len(store[handler[h].code].checkpoints) = 3

\* C11. Exam disqualification: in an active section, the step that feeds the
\* 5th violation event to addViolation leaves the exam status failed.
ExamDisqualification ==
    [][(/\ exam.status \in ActiveSections
        /\ exam.fed < MAX_VIOLATIONS
        /\ exam'.fed >= MAX_VIOLATIONS)
       => exam'.status = "failed"]_vars

\* C12. Exam failed is terminal: once the exam status is failed, no step
\* changes it.
ExamFailedIsTerminal ==
    [][exam.status = "failed" => exam'.status = "failed"]_vars

\* C13. Trial verdict function: whenever handleSubmit runs, it produces the
\* void verdict (status completed, the violated rules as feedback) if and only
\* if the accumulated log has tabSwitchCount > 2, pasteCount > 0,
\* focusLostTime > 5000 or more than 2 environment violations, and in that
\* case it does not call the AI scoring function.
TrialVerdictFunction ==
    [][trial'.submits > trial.submits =>
         LET log == trial.antiCheat
             exceeded == \/ log.tabSwitchCount > 2
                         \/ log.pasteCount > 0
                         \/ log.focusLostTime > 5000
                         \/ log.environmentViolations > 2
         IN  /\ exceeded <=> (trial'.verdict = "void" /\ trial'.status = "completed")
             /\ exceeded => trial'.aiCalls = trial.aiCalls]_vars

\* C14. Integrity verdict independent of the AI: when a submitAnswer call of
\* the interview ends whose round had a recorded violation, the history ends
\* with an entry of score 0 for that round, whether evaluateInterviewResponse
\* resolved or threw.
InterviewVerdictWithoutJudge ==
    [][\A i \in 1..Len(interview.answering) :
         (/\ interview'.answering = RemoveAt(interview.answering, i)
          /\ interview.answering[i].violations # {})
         => /\ interview'.history # <<>>
            /\ interview'.history[Len(interview'.history)] =
                 [round |-> interview.answering[i].round, score |-> 0]]_vars

\* C15. Interview round-scoped violations: whenever a round's score is
\* recorded and a violation had been recorded between the start of the round
\* and its submission, by button or by timer, the recorded score is 0.
InterviewRoundZero ==
    [][\A i \in 1..Len(interview.answering) :
         (/\ interview'.answering = RemoveAt(interview.answering, i)
          /\ interview'.history # interview.history
          /\ interview.answering[i].atSubmit # {})
         => interview'.history[Len(interview'.history)].score = 0]_vars

\* C16. Violation log frozen after a terminal verdict: once a Trial has
\* reached the void verdict (status completed), its antiCheat log, the
\* environmentViolations count included, is never modified again, also not
\* by a snapshot check that started before the verdict.
TrialLogFrozen ==
    [][(trial.status = "completed" /\ trial.verdict = "void")
       => trial'.antiCheat = trial.antiCheat]_vars

\* C17. Auto-submit exactly once: the Trial's countdown reaching zero invokes
\* handleSubmit once; no tick or button press invokes it twice.
TrialAutoSubmitOnce ==
    [][trial'.submits \in {trial.submits, trial.submits + 1}]_vars

\* C18. Final ranking: on the results screen the participants are ordered by
\* progress descending, and participants with equal progress by join order,
\* whatever progress updates and live-ranking renders came before.
FinalRanking ==
    race.mode = "results" =>
        \A i, j \in 1..Len(race.participants) :
            i < j => \/ race.participants[i].progress > race.participants[j].progress
                     \/ /\ race.participants[i].progress = race.participants[j].progress
                        /\ race.participants[i].id < race.participants[j].id

\* C19. startTime is set exactly once: the startTime of a session that is
\* active and stays active is never written again, for any sequence of
\* startSession calls.
StartTimeSetOnce ==
    [][\A c \in Codes :
         (store[c].status = "active" /\ store'[c].status = "active")
         => store'[c].startTime = store[c].startTime]_vars

\* The first invocation of f that resolves, 0 when none does.
FirstResolved(f) ==
    IF \E i \in 1..MaxFnCalls : f[i] = "resolve"
    THEN CHOOSE i \in 1..MaxFnCalls :
            f[i] = "resolve" /\ \A j \in 1..(i - 1) : f[j] = "reject"
    ELSE 0

\* What C20 states of a call with the default arguments, for a budget of
\* `budget` invocations: at most that many invocations, a wait of 1 s before
\* the second and twice the previous wait before each further one, the first
\* result returned with no invocation after it, the last error rethrown once
\* the budget is spent.
RetryContract(budget) ==
    retry.default =>
        /\ retry.invocations <= budget
        /\ retry.waited = [i \in 1..Len(retry.waited) |-> Delay * 2^(i - 1)]
        /\ Len(retry.waited) = IF retry.pc \in {"idle", "try"} THEN retry.invocations
                               ELSE retry.invocations - 1
        /\ retry.pc = "returned" =>
              /\ retry.value = FirstResolved(retry.fn)
              /\ retry.invocations = retry.value
        /\ retry.pc = "thrown" =>
              /\ retry.invocations = budget
              /\ retry.value = budget
              /\ \A i \in 1..budget : retry.fn[i] = "reject"

\* C20 as stated. Retry budget: withRetry with its default arguments invokes
\* the wrapped call at most 3 times in total, waits 1 s before the second
\* attempt and doubles the wait before each further attempt, returns the
\* first successful result without further attempts, and rethrows the last
\* error once the attempts are exhausted.
RetryBudgetOfThree == RetryContract(3)

\* C20 (amended). The same with at most 4 invocations in total: the first
\* attempt and up to 3 retries, after waits of 1 s, 2 s and 4 s.
RetryBudget == RetryContract(Retries + 1)

RetryBudgetWitness ==
    /\ retry.default
    /\ retry.pc = "thrown"
    /\ retry.invocations = Retries + 1
    /\ retry.waited = <<1000, 2000, 4000>>

\* C21. Environment check never fails open: analyzeEnvironmentSnapshot
\* invokes the AI at most twice, the second time 3 s after the first; when
\* every attempt failed it does not throw but returns the three flags false,
\* and a result that reads as a passed check was parsed from a response of
\* the service.
SnapshotNeverFailsOpen ==
    ~retry.default =>
        /\ retry.invocations <= 2
        /\ retry.waited \in {<<>>, <<3000>>}
        /\ retry.analysed =>
              /\ retry.pc = "thrown" =>
                    retry.result = Flags("false", "false", "false")
              /\ SnapshotPassed(retry.result) =>
                    /\ retry.pc = "returned"
                    /\ retry.fn[retry.value] = "resolve"

\* Both attempts failed, 3 s apart, and the analysis reports a failed check.
SnapshotWitness ==
    /\ ~retry.default /\ retry.analysed
    /\ retry.pc = "thrown"
    /\ retry.invocations = 2
    /\ retry.waited = <<3000>>
    /\ ~SnapshotPassed(retry.result)

\* C22. Grading never blocks indefinitely: a Trial that is analyzing leaves
\* that status as soon as its AI scoring call settles, with a score, whether
\* the call resolved or failed on every attempt.
TrialGradingNeverBlocks ==
    [][(trial.status = "analyzing" /\ trial'.evaluating < trial.evaluating)
       => (trial'.status = "completed" /\ trial'.verdict # "none")]_vars

SessionDisappearance ==
    [][/\ arena'.errored => arena'.heard = "null"
       /\ (arena'.heard = "data" /\ arena.heard # "data")
             => store[arena.sessionCode].exists
       /\ (/\ arena.heard # "null" /\ arena'.heard = "null"
           /\ arena.mode \in {"waiting", "race"})
          => /\ arena'.mode = "lobby"
             /\ arena'.sessionCode = 0
             /\ arena'.participants = <<>>
             /\ ~arena'.generatedTaskReady]_vars

\* The listener of a host who was ready to start failed, and the host is
\* back in the lobby.
SessionDisappearanceWitness ==
    /\ arena.heard = "null" /\ arena.errored
    /\ arena.mode = "lobby" /\ arena.sessionCode = 0
    /\ arena.participants = <<>> /\ ~arena.generatedTaskReady
    /\ \E h \in Handlers : handler[h].pc = "done" /\ ~handler[h].offline

\* C26. Immutable identity fields: no step other than a createSession
\* changes the id, the hostId or the domain of a stored session, whatever
\* joinSession, leaveSession, setSessionScenario, startSession and
\* updateProgress calls run and however they interleave.
IdentityImmutable ==
    [][\A c \in Codes :
         (store[c].exists /\ ~Returns("createSession"))
         => /\ store'[c].exists
            /\ store'[c].id = store[c].id
            /\ store'[c].hostId = store[c].hostId
            /\ store'[c].domain = store[c].domain]_vars

\* A session that another user joined, that was given a scenario and was
\* started, still carries its code, its host and its domain.
IdentityWitness ==
    \E c \in Codes :
        /\ store[c].exists /\ store[c].status = "active"
        /\ store[c].taskDescription # ""
        /\ Len(store[c].participants) = 2
        /\ store[c].id = c
        /\ store[c].hostId = store[c].participants[1].id
        /\ store[c].domain # ""
        /\ last.op = "startSession" /\ last.success /\ calls = 4

UpdateProgressFrame ==
    [][\A c \in Codes :
         (/\ Returns("updateProgress") /\ last'.code = c
          /\ Fresh /\ last'.success /\ store[c].exists)
         => LET old == store[c].participants
                new == store'[c].participants
                u == last'.user
            IN  /\ store'[c] = [store[c] EXCEPT !.participants = new]
                /\ Len(new) = Len(old)
                /\ \A i \in 1..Len(old) :
                      /\ new[i].id = old[i].id
                      /\ new[i].name = old[i].name
                      /\ new[i].avatar = old[i].avatar
                      /\ new[i].score = old[i].score
                      /\ new[i].isBot = old[i].isBot
                      /\ IF old[i].id = u
                         THEN new[i].progress = last'.progress /\ new[i].status = last'.pstatus
                         ELSE new[i] = old[i]
                /\ u \notin ParticipantIds(old) => new = old]_vars

\* The host left and then reported progress: the host was not added and the
\* remaining participant is as before.
UpdateProgressFrameWitness ==
    /\ last.op = "updateProgress" /\ last.success /\ last.progress # 0
    /\ store[last.code].exists
    /\ store[last.code].hostId = last.user
    /\ last.user \notin ParticipantIds(store[last.code].participants)
    /\ Len(store[last.code].participants) = 1
    /\ store[last.code].participants[1].progress = 0

\* C29. Scenario and start writes do not clobber participants: a
\* setSessionScenario changes only taskDescription and checkpoints and a
\* startSession only status and startTime; a joinSession, leaveSession or
\* updateProgress transaction that ends changes neither the scenario nor the
\* status; and however these calls overlap, the participants are the users
\* who joined and have not left, each with the progress of its last
\* committed update.
NoClobber ==
    [][\A c \in Codes :
         store[c].exists =>
            /\ (Returns("setSessionScenario") /\ last'.code = c /\ last'.success)
               => store'[c] = [store[c] EXCEPT
                                  !.taskDescription = store'[c].taskDescription,
                                  !.checkpoints = store'[c].checkpoints]
            /\ (Returns("startSession") /\ last'.code = c /\ last'.success)
               => /\ store'[c] = [store[c] EXCEPT !.status = "active",
                                                  !.startTime = store'[c].startTime]
            /\ (\E p \in Procs : Ends(p) /\ slot[p].call.code = c)
               => store'[c] = [store[c] EXCEPT !.participants = store'[c].participants]
            /\ store'[c].exists
            /\ ParticipantIds(store'[c].participants) = hMembers'[c]
            /\ Len(store'[c].participants) = Cardinality(hMembers'[c])
            /\ \A i \in 1..Len(store'[c].participants) :
                  LET x == store'[c].participants[i] IN
                  <<x.progress, x.status>> = hProgress'[c][x.id]]_vars

\* The only calls were a createSession, a joinSession and a
\* setSessionScenario that was written while the join's transaction was
\* open: the join ran again, and the session has both the scenario and the
\* new participant.
NoClobberWitness ==
    /\ calls = 3
    /\ last.op = "joinSession" /\ last.success /\ ~last.isAlreadyIn
    /\ last.attempts = 2
    /\ store[last.code].taskDescription # ""
    /\ store[last.code].checkpoints # <<>>
    /\ store[last.code].status = "waiting"
    /\ Len(store[last.code].participants) = 2

\* C25. Bots are never persisted: no participant of a stored session is a
\* bot, and a step the client takes in a public race writes nothing to the
\* session store (a step of a handleCreatePrivateSession still running, or
\* the settling of an updateProgress call issued earlier in a private race,
\* is not such a step).
BotsNeverPersisted ==
    [][/\ \A c \in Codes : \A i \in 1..Len(store'[c].participants) :
             ~store'[c].participants[i].isBot
       /\ (/\ arena.mode = "race" /\ ~arena.isPrivate
           /\ arena'.pending = arena.pending
           /\ handler' = handler)
          => store' = store]_vars

\* C30. Progress never regresses in the private race flow: the progress
\* stored for the client's user is within 0..100 and, from one state to the
\* next, does not decrease while the user stays in the session.
ProgressNeverRegresses ==
    [][\A c \in Codes :
         \A i \in 1..Len(store[c].participants), j \in 1..Len(store'[c].participants) :
            (/\ store[c].participants[i].id = HostUser
             /\ store'[c].participants[j].id = HostUser)
            => /\ store'[c].participants[j].progress \in 0..100
               /\ store'[c].participants[j].progress >= store[c].participants[i].progress]_vars

\* C38. createSession never overwrites a live session: a createSession that
\* returns leaves every document that existed before it as it was (so a
\* code it hands out is the code of a document it created, not replaced).
CreateNeverOverwrites ==
    [][\A c \in Codes :
         (store[c].exists /\ Returns("createSession")) => store'[c] = store[c]]_vars

\* C34. leaveSession is issued only on a real exit: a step in which the
\* client goes from waiting to race or from race to results removes nobody
\* from a stored participants list.
LeaveOnlyOnExit ==
    [][(<<arena.mode, arena'.mode>> \in {<<"waiting", "race">>, <<"race", "results">>})
       => \A c \in Codes :
             ParticipantIds(store'[c].participants) = ParticipantIds(store[c].participants)]_vars

\* C36. The timeout path applies the integrity gate to the current log: in
\* the step in which the Trial countdown expires and the timer submits, the
\* log handleSubmit reads is the log accumulated up to that moment, and a
\* log that breaks a rule gives the void verdict.
TimeoutAppliesGate ==
    [][(/\ trial.timeLeft > 0 /\ trial'.timeLeft = 0
        /\ trial'.submits > trial.submits)
       => /\ trial'.read = trial.antiCheat
          /\ IntegrityViolations(trial.antiCheat) # {}
                => (trial'.verdict = "void" /\ trial'.status = "completed")]_vars

\* C37. No certification after disqualification: once the recorded violations
\* of an exam run exceed the limit at which addViolation fails the exam, no
\* later step certifies the user (onUpdateUser with isCertified = true and
\* examsPassed + 1), grading in flight included.
NoCertificationAfterDisqualification ==
    [][FailsExam(exam.violations) => (exam'.isCertified = exam.isCertified)]_vars

\* C39. Exam section order: once the exam is under way its status changes only
\* one step along loading, mcq, theory, practical, grading, results, or from an
\* active section to failed; no step skips a section or goes back.
ExamSectionOrder ==
    [][(exam.status \in {"loading", "grading", "results", "failed"} \cup ActiveSections
        /\ exam'.status # exam.status)
       => <<exam.status, exam'.status>> \in
             {<<"loading", "mcq">>, <<"mcq", "theory">>, <<"theory", "practical">>,
              <<"practical", "grading">>, <<"grading", "results">>}
             \cup {<<s, "failed">> : s \in ActiveSections}]_vars

\* C33. Every failed environment sub-flag is recorded: when the result of an
\* exam's camera snapshot arrives with n of lighting, singlePerson and
\* noDevices false, the violation list grows by exactly n entries, whatever
\* was recorded shortly before.
EveryFailedFlagRecorded ==
    [][\A failed \in 0..3 :
         ExamCamResult(failed) => exam'.violations = exam.violations + failed]_vars

\* C35. generatedTaskReady describes the current session: whenever the host
\* client's generatedTaskReady is true, the session of its current sessionCode
\* exists and has a non-empty stored task description and checkpoint list.
ReadyDescribesCurrentSession ==
    arena.generatedTaskReady
        => /\ arena.sessionCode \in Codes
           /\ store[arena.sessionCode].exists
           /\ store[arena.sessionCode].taskDescription # ""
           /\ store[arena.sessionCode].checkpoints # <<>>

\* C32. Reload tolerance: when a member of an active session reloads, so that
\* that user's leaveSession returns (it removed the user) and then the user's
\* joinSession for the same session returns, the joinSession has succeeded and
\* the user is in participants afterwards.
ReloadTolerance ==
    [][\A c \in Codes :
         (/\ last.op = "leaveSession" /\ last.success /\ last.isAlreadyIn
          /\ last.code = c
          /\ Returns("joinSession")
          /\ last'.code = c /\ last'.user = last.user
          /\ store[c].exists /\ store[c].status = "active")
         => /\ last'.success
            /\ last'.user \in ParticipantIds(store'[c].participants)]_vars

\* C40. Bot simulation bounds: in the public race every bot's progress stays
\* within 0..100, never decreases and grows by at most 14 in a step; a bot is
\* finished exactly when its progress is 100; a finished bot never changes; and
\* a tick of the race loop leaves the human participant as it was.
BotSimulationBounds ==
    [][(race.participants # <<>> /\ race'.participants # <<>>)
       => LET Was(i) == race.participants[
                           CHOOSE k \in 1..Len(race.participants) :
                               race.participants[k].id = i]
              Is(i) == race'.participants[
                           CHOOSE k \in 1..Len(race'.participants) :
                               race'.participants[k].id = i]
          IN  /\ \A i \in 1..NumBots :
                   /\ Is(i).isBot
                   /\ Is(i).progress \in 0..100
                   /\ Is(i).progress >= Was(i).progress
                   /\ Is(i).progress - Was(i).progress <= 14
                   /\ Is(i).status = "finished" <=> Is(i).progress = 100
                   /\ Was(i).status = "finished" => Is(i) = Was(i)
              /\ (\E gains \in [1..NumBots -> BotGains] : RaceTick(gains))
                    => Is(0) = Was(0)]_vars

\* The race is still on with one bot finished at 100, another at 98 and the
\* human half way.
BotSimulationWitness ==
    /\ race.mode = "race"
    /\ \E i, j, k \in 1..Len(race.participants) :
          /\ race.participants[i].isBot /\ race.participants[i].status = "finished"
          /\ race.participants[i].progress = 100
          /\ race.participants[j].isBot /\ race.participants[j].progress = 98
          /\ ~race.participants[k].isBot /\ race.participants[k].progress = 50

\* C31. Start is observed from the latest snapshot alone: a snapshot that a
\* waiting client receives of an active session puts the client in race mode
\* with the snapshot's task and checkpoints, whatever it received before (its
\* first snapshot included); and a client waiting in an active session
\* eventually is in race mode, unless it has left the session or the session
\* is no longer active by then.
StartObservedFromSnapshot ==
    /\ [][(/\ arena.mode = "waiting"
           /\ \E ok, okLeave \in BOOLEAN : SessionSnapshot(ok, okLeave)
           /\ arena'.heard = "data"
           /\ store[arena.sessionCode].status = "active")
          => /\ arena'.mode = "race"
             /\ arena'.task = store[arena.sessionCode].taskDescription
             /\ arena'.checkpoints = store[arena.sessionCode].checkpoints]_vars
    /\ (/\ arena.mode = "waiting" /\ arena.sessionCode # 0
        /\ store[arena.sessionCode].exists
        /\ store[arena.sessionCode].status = "active")
          ~> \/ arena.mode \in {"race", "lobby"}
             \/ arena.sessionCode # 0 /\ store[arena.sessionCode].status # "active"

\* A guest whose first snapshot was of the session already started is in the
\* race with the host's task and checkpoints.
StartObservedWitness ==
    /\ arena.mode = "race" /\ ~arena.isHost /\ arena.sessionCode # 0
    /\ store[arena.sessionCode].hostId = RemoteHost
    /\ arena.task = "task" /\ arena.checkpoints = <<1, 2>>
    /\ arena.heard = "data"

====
